---- MODULE Spec2Model ----
(***************************************************************************)
(* A model of the in-place document mutation engine of obsidian-go-mcp:    *)
(* the path guard, the single-edit, section-replace and batch-edit         *)
(* handlers, the frontmatter mutator, the link rewriter and the rename     *)
(* and bulk handlers.  Go strings are modelled as sequences of             *)
(* one-character strings (all characters used are ASCII, so bytes =        *)
(* runes), and the Go standard-library functions the handlers call are     *)
(* modelled by what they                                                   *)
(* compute.                                                                *)
(***************************************************************************)
EXTENDS Integers, Sequences, FiniteSets, TLC

VARIABLES disk, req, res, snap, io

vars == <<disk, req, res, snap, io>>

(***************************************************************************)
(* Bounds of the model.                                                    *)
(***************************************************************************)
MaxDocLen == 3
MaxTextLen == 2
MaxBatchDocLen == 2
MaxBatch == 2
MaxPathLen == 5
MaxLines == 3
MaxContentLines == 2

\* Lines of a document given to the frontmatter mutator
MaxFmLines == 4

\* Paths in the paths parameter of a bulk handler
MaxBulkPaths == 2

\* Edits of a batch given to the overlap check
MaxOverlapBatch == 3

\* Pieces of a content with wikilinks
MaxLinkTokens == 6

\* Pieces of a line given to the task parser
MaxTaskTokens == 5

\* Lines of a content given to the frontmatter parser
MaxParseLines == 4

\* Bytes of a note edited for an excerpt
MaxContextDocLen == 3

NL == "\n"
SP == " "
HASH == "#"
SEP == "/"
DOT == "."

(***************************************************************************)
(* Generic sequence helpers.                                               *)
(***************************************************************************)
Min(a, b) == IF a < b THEN a ELSE b

\* All sequences over S of length 0..n.
SeqsUpTo(S, n) == UNION {[1..k -> S] : k \in 0..n}

\* s[a..b] in Go's half-open, 0-based notation s[a:b].
Slice(s, a, b) == SubSeq(s, a + 1, b)

\* F applied to the value of v, which is computed once
Bind(v, F(_)) == CHOOSE r \in {F(x) : x \in {v}} : TRUE

(***************************************************************************)
(* package strings                                                         *)
(***************************************************************************)
\* true iff t occurs in s at 0-based byte offset i
MatchAt(s, t, i) ==
    /\ i >= 0
    /\ i + Len(t) <= Len(s)
    /\ \A k \in 1..Len(t) : s[i + k] = t[k]

HasPrefix(s, p) == MatchAt(s, p, 0)

HasSuffix(s, p) == MatchAt(s, p, Len(s) - Len(p))

\* strings.Index: the offset of the first occurrence, -1 if there is none
Index(s, t) ==
    IF \E i \in 0..Len(s) : MatchAt(s, t, i)
    THEN CHOOSE i \in 0..Len(s) :
            /\ MatchAt(s, t, i)
            /\ \A j \in 0..(i - 1) : ~MatchAt(s, t, j)
    ELSE -1

\* strings.Count: the number of non-overlapping occurrences, scanning from the
\* left and resuming after the end of each match; Len(s)+1 for the empty t.
RECURSIVE CountFrom(_, _, _)
CountFrom(s, t, from) ==
    LET rest == Slice(s, from, Len(s))
        i == Index(rest, t)
    IN IF i < 0 THEN 0 ELSE 1 + CountFrom(s, t, from + i + Len(t))

Count(s, t) == IF t = <<>> THEN Len(s) + 1 ELSE CountFrom(s, t, 0)

\* The loop of strings.Replace: k replacements left, i the iteration number,
\* start the offset of the unprocessed rest of s.
RECURSIVE ReplaceLoop(_, _, _, _, _, _)
ReplaceLoop(s, old, new, k, i, start) ==
    IF k = 0
    THEN Slice(s, start, Len(s))
    ELSE LET j == IF old = <<>>
                  THEN (IF i > 0 THEN start + 1 ELSE start)
                  ELSE start + Index(Slice(s, start, Len(s)), old)
         IN Slice(s, start, j) \o new
              \o ReplaceLoop(s, old, new, k - 1, i + 1, j + Len(old))

\* strings.Replace(s, old, new, n); n < 0 replaces every occurrence
Replace(s, old, new, n) ==
    LET m == Count(s, old)
    IN IF old = new \/ n = 0 \/ m = 0
       THEN s
       ELSE ReplaceLoop(s, old, new, IF n < 0 \/ m < n THEN m ELSE n, 0, 0)

ReplaceAll(s, old, new) == Replace(s, old, new, -1)

\* strings.Split(s, sep) for a one-character separator
RECURSIVE Split(_, _)
Split(s, sep) ==
    LET i == Index(s, <<sep>>)
    IN IF i < 0
       THEN <<s>>
       ELSE <<Slice(s, 0, i)>> \o Split(Slice(s, i + 1, Len(s)), sep)

\* strings.Join(parts, sep) for a one-character separator
RECURSIVE Join(_, _)
Join(parts, sep) ==
    IF parts = <<>> THEN <<>>
    ELSE IF Len(parts) = 1 THEN parts[1]
    ELSE parts[1] \o <<sep>> \o Join(Tail(parts), sep)

\* strings.TrimRight(s, cutset)
RECURSIVE TrimRight(_, _)
TrimRight(s, cutset) ==
    IF s # <<>> /\ s[Len(s)] \in cutset
    THEN TrimRight(SubSeq(s, 1, Len(s) - 1), cutset)
    ELSE s

RECURSIVE TrimLeft(_, _)
TrimLeft(s, cutset) ==
    IF s # <<>> /\ s[1] \in cutset THEN TrimLeft(Tail(s), cutset) ELSE s

WhiteSpace == {SP, NL, "\t", "\r"}

\* strings.TrimSpace
TrimSpace(s) == TrimLeft(TrimRight(s, WhiteSpace), WhiteSpace)

\* strings.EqualFold on the letters the model uses (simple case folding)
Lower(c) == IF c = "H" THEN "h" ELSE IF c = "S" THEN "s" ELSE c

EqualFold(s, t) ==
    /\ Len(s) = Len(t)
    /\ \A k \in 1..Len(s) : Lower(s[k]) = Lower(t[k])

(***************************************************************************)
(* package path/filepath (Unix): lexical processing only.                  *)
(***************************************************************************)
IsRooted(p) == p # <<>> /\ p[1] = SEP

DOTDOT == <<DOT, DOT>>

\* The element stack of filepath.Clean: "." and empty elements are dropped, a
\* ".." removes the element before it, is dropped at the root and is kept at
\* the front of a relative path.
RECURSIVE CleanElems(_, _, _)
CleanElems(elems, rooted, out) ==
    IF elems = <<>> THEN out
    ELSE LET e == Head(elems)
             rest == Tail(elems)
         IN IF e = <<>> \/ e = <<DOT>>
            THEN CleanElems(rest, rooted, out)
            ELSE IF e = DOTDOT
            THEN IF out # <<>> /\ out[Len(out)] # DOTDOT
                 THEN CleanElems(rest, rooted, SubSeq(out, 1, Len(out) - 1))
                 ELSE IF rooted
                 THEN CleanElems(rest, rooted, out)
                 ELSE CleanElems(rest, rooted, Append(out, e))
            ELSE CleanElems(rest, rooted, Append(out, e))

\* filepath.Clean
Clean(p) ==
    LET rooted == IsRooted(p)
        body == Join(CleanElems(Split(p, SEP), rooted, <<>>), SEP)
        out == IF rooted THEN <<SEP>> \o body ELSE body
    IN IF out = <<>> THEN <<DOT>> ELSE out

\* filepath.Join of two elements: empty elements are ignored, the result is
\* cleaned, and joining nothing gives the empty string
FilepathJoin(a, b) ==
    IF a = <<>> /\ b = <<>> THEN <<>>
    ELSE IF a = <<>> THEN Clean(b)
    ELSE IF b = <<>> THEN Clean(a)
    ELSE Clean(a \o <<SEP>> \o b)

\* The elements of a cleaned path ("/" and "." have none)
Elems(p) ==
    LET q == IF IsRooted(p) THEN Tail(p) ELSE p
    IN IF q = <<>> \/ q = <<DOT>> THEN <<>> ELSE Split(q, SEP)

\* Number of leading elements two element lists share
RECURSIVE CommonLen(_, _)
CommonLen(a, b) ==
    IF a # <<>> /\ b # <<>> /\ Head(a) = Head(b)
    THEN 1 + CommonLen(Tail(a), Tail(b))
    ELSE 0

\* filepath.Rel(basepath, targpath): [err, path]
Rel(basepath, targpath) ==
    LET base == Clean(basepath)
        targ == Clean(targpath)
        be == Elems(base)
        te == Elems(targ)
        k == CommonLen(be, te)
        ups == [i \in 1..(Len(be) - k) |-> DOTDOT]
        downs == SubSeq(te, k + 1, Len(te))
    IN IF targ = base THEN [err |-> FALSE, path |-> <<DOT>>]
       ELSE IF IsRooted(base) # IsRooted(targ)
       THEN [err |-> TRUE, path |-> <<>>]
       ELSE IF k < Len(be) /\ be[k + 1] = DOTDOT
       THEN [err |-> TRUE, path |-> <<>>]
       ELSE [err |-> FALSE, path |-> Join(ups \o downs, SEP)]

(***************************************************************************)
(* The vault and its path guard.                                           *)
(***************************************************************************)
\* A path-guard mutant that only rejects the bare "..".
isPathSafeBareDotDot(vpath, fullPath) == Rel(vpath, Clean(fullPath)).path # DOTDOT

\* Vault.isPathSafe
isPathSafe(vpath, fullPath) ==
    LET cleanPath == Clean(fullPath)
        r == Rel(vpath, cleanPath)
    IN IF r.err THEN FALSE
       ELSE ~HasPrefix(r.path, DOTDOT) /\ r.path # DOTDOT

\* vault.New stores the absolute, cleaned vault path
VaultPath == <<SEP, "v">>

MD == <<DOT, "m", "d">>

\* The one note of the vault the edit engines work on: /v/n.md
NoteFile == <<SEP, "v", SEP, "n">> \o MD

\* Caller-supplied note paths: the note (extension added by the handler), a
\* note that does not exist, and a path that leaves the vault.
NotePaths == { <<"n">>, <<"m">> \o MD, <<DOT, DOT, SEP, "n">> }

\* The prologue every edit handler runs on its path parameter
NotePathOf(p) == IF HasSuffix(p, MD) THEN p ELSE p \o MD

FullPathOf(p) == FilepathJoin(VaultPath, NotePathOf(p))

\* What the prologue of an edit handler finds for the path parameter p: the
\* guard refuses it ("unsafe"), os.ReadFile finds no file ("missing"), or it
\* names the note ("note")
PathStatus(p) ==
    LET fullPath == FullPathOf(p)
    IN IF ~isPathSafe(VaultPath, fullPath) THEN "unsafe"
       ELSE IF fullPath # NoteFile THEN "missing"
       ELSE "note"

(***************************************************************************)
(* Results of a call.  res.ok distinguishes mcp.NewToolResultText from     *)
(* mcp.NewToolResultError; res.err names the error message; res.detail     *)
(* carries the numbers the message reports.  io is the list of file        *)
(* operations the call performed, snap the content it read.                *)
(***************************************************************************)
NoReq == [op |-> "none"]

NoRes == [ok |-> TRUE, err |-> "", detail |-> <<>>]

Success(detail) == [ok |-> TRUE, err |-> "", detail |-> detail]

Failure(err, detail) == [ok |-> FALSE, err |-> err, detail |-> detail]

\* What a handler does: its result, the content it read (<<>> if it read
\* nothing), its file operations, and the content of the note afterwards.
Outcome(result, content, ops, after) ==
    [res |-> result, snap |-> content, io |-> ops, disk |-> after]

\* Rejected before the note was read
Refused(err, d) == Outcome(Failure(err, <<>>), <<>>, <<>>, d)

\* Rejected after the note was read, without writing
Rejected(err, detail, d) == Outcome(Failure(err, detail), d, <<"read">>, d)

\* os.WriteFile of the whole new content, then the success result
Written(detail, d, newContent) ==
    Outcome(Success(detail), d, <<"read", "write">>, newContent)

(***************************************************************************)
(* Single-Edit Engine                                                      *)
(***************************************************************************)
\* A mutant of the replacement that inserts the new text and keeps the old.
EditReplaceKeepOld(contentStr, oldText, replacementText, replaceAll) ==
    LET i == Index(contentStr, oldText)
    IN Slice(contentStr, 0, i) \o replacementText
         \o Slice(contentStr, i, Len(contentStr))

\* The replacement EditNoteHandler performs once the count is accepted
EditReplace(contentStr, oldText, replacementText, replaceAll) ==
    IF replaceAll
    THEN ReplaceAll(contentStr, oldText, replacementText)
    ELSE Replace(contentStr, oldText, replacementText, 1)

\* A mutant of the handler's body that writes before it checks the count.
EditNoteBodyWriteFirst(d, oldText, replacementText, replaceAll) ==
    LET count == Count(d, oldText)
        newContent == Replace(d, oldText, replacementText, 1)
    IN IF count = 0
       THEN Outcome(Failure("old_text not found", <<>>), d, <<"read", "write">>, newContent)
       ELSE IF count > 1 /\ ~replaceAll
       THEN Outcome(Failure("ambiguous", <<count>>), d, <<"read", "write">>, newContent)
       ELSE Written(<<count>>, d, newContent)

\* EditNoteHandler from the count of occurrences on, d the content read
EditNoteBody(d, oldText, replacementText, replaceAll) ==
    LET contentStr == d
        count == Count(contentStr, oldText)
    IN IF count = 0
       THEN Rejected("old_text not found", <<>>, d)
       ELSE IF count > 1 /\ ~replaceAll
       THEN Rejected("ambiguous", <<count>>, d)
       ELSE Written(<<IF replaceAll THEN count ELSE 1>>, d,
                    EditReplace(contentStr, oldText, replacementText, replaceAll))

\* EditNoteHandler on the vault whose note holds d, st the status of its path
EditNote(d, st, oldText, replacementText, replaceAll) ==
    IF st = "unsafe"
    THEN Refused("path must be within vault", d)
    ELSE IF st = "missing"
    THEN Refused("Note not found", d)
    ELSE EditNoteBody(d, oldText, replacementText, replaceAll)

(***************************************************************************)
(* Batch Edit Engine                                                       *)
(***************************************************************************)
\* The comparisons the handler passes to sort.Slice
OffsetLess(a, b, ascending) ==
    IF ascending THEN a.offset < b.offset ELSE a.offset > b.offset

\* sort.Slice on located edits (an insertion sort, as Go uses for slices of
\* fewer than 12 elements)
RECURSIVE InsertSorted(_, _, _)
InsertSorted(sorted, e, ascending) ==
    IF sorted = <<>> THEN <<e>>
    ELSE IF OffsetLess(e, Head(sorted), ascending) THEN <<e>> \o sorted
    ELSE <<Head(sorted)>> \o InsertSorted(Tail(sorted), e, ascending)

RECURSIVE SortSlice(_, _)
SortSlice(xs, ascending) ==
    IF xs = <<>> THEN <<>>
    ELSE InsertSorted(SortSlice(SubSeq(xs, 1, Len(xs) - 1), ascending),
                      xs[Len(xs)], ascending)

OffsetAsc == TRUE

OffsetDesc == FALSE

\* The per-edit loop of validateBatchEdits from edit i on:
\* [located, errors], an error being [idx, kind, count]
RECURSIVE ValidateLoop(_, _, _)
ValidateLoop(content, edits, i) ==
    IF i > Len(edits) THEN [located |-> <<>>, errors |-> <<>>]
    ELSE LET e == edits[i]
             rest == ValidateLoop(content, edits, i + 1)
             count == Count(content, e.old_text)
         IN IF e.old_text = <<>>
            THEN [rest EXCEPT !.errors =
                    <<[idx |-> i, kind |-> "empty", count |-> 0]>> \o @]
            ELSE IF count = 0
            THEN [rest EXCEPT !.errors =
                    <<[idx |-> i, kind |-> "not found", count |-> 0]>> \o @]
            ELSE IF count > 1
            THEN [rest EXCEPT !.errors =
                    <<[idx |-> i, kind |-> "not unique", count |-> count]>> \o @]
            ELSE [rest EXCEPT !.located =
                    <<[old_text |-> e.old_text, new_text |-> e.new_text,
                       offset |-> Index(content, e.old_text)]>> \o @]

\* An overlap check that sees only two edits that start at the same offset.
FirstOverlapSameStart(located) ==
    LET bad == {i \in 1..(Len(located) - 1) : located[i + 1].offset = located[i].offset}
    IN IF bad = {} THEN 0 ELSE CHOOSE i \in bad : \A j \in bad : i <= j

\* The overlap loop of validateBatchEdits: the first i (1-based position of
\* the later edit of the pair, minus one, as the loop counts) whose edit
\* starts before the previous one ends; 0 if there is none
FirstOverlap(located) ==
    LET bad == {i \in 1..(Len(located) - 1) :
                  located[i + 1].offset <
                      located[i].offset + Len(located[i].old_text)}
    IN IF bad = {} THEN 0 ELSE CHOOSE i \in bad : \A j \in bad : i <= j

\* A mutant of the validation that stops at the first failing edit.
validateBatchEditsFirstOnly(content, edits) ==
    LET v == ValidateLoop(content, edits, 1)
        sorted == SortSlice(v.located, OffsetAsc)
        i == FirstOverlap(sorted)
    IN IF v.errors # <<>>
       THEN [ok |-> FALSE, err |-> "validation failed", detail |-> <<v.errors[1]>>,
             located |-> <<>>]
       ELSE IF i # 0
       THEN [ok |-> FALSE, err |-> "overlap", detail |-> <<i, i + 1>>,
             located |-> <<>>]
       ELSE [ok |-> TRUE, err |-> "", detail |-> <<>>, located |-> sorted]

\* A mutant of the validation that skips the overlap check.
validateBatchEditsNoOverlap(content, edits) ==
    LET v == ValidateLoop(content, edits, 1)
    IN IF v.errors # <<>>
       THEN [ok |-> FALSE, err |-> "validation failed", detail |-> v.errors,
             located |-> <<>>]
       ELSE [ok |-> TRUE, err |-> "", detail |-> <<>>,
             located |-> SortSlice(v.located, OffsetAsc)]

\* validateBatchEdits: the located edits or the error result
validateBatchEdits(content, edits) ==
    LET v == ValidateLoop(content, edits, 1)
        sorted == SortSlice(v.located, OffsetAsc)
        i == FirstOverlap(sorted)
    IN IF v.errors # <<>>
       THEN [ok |-> FALSE, err |-> "validation failed", detail |-> v.errors,
             located |-> <<>>]
       ELSE IF i # 0
       THEN [ok |-> FALSE, err |-> "overlap", detail |-> <<i, i + 1>>,
             located |-> <<>>]
       ELSE [ok |-> TRUE, err |-> "", detail |-> <<>>, located |-> sorted]

\* A mutant of the splice loop that walks the edits in ascending offset order.
RECURSIVE ApplyLocatedAscending(_, _)
ApplyLocatedAscending(result, located) ==
    IF located = <<>> THEN result
    ELSE LET le == located[Len(located)]
         IN ApplyLocatedAscending(
              Slice(result, 0, Min(le.offset, Len(result))) \o le.new_text
                \o Slice(result, Min(le.offset + Len(le.old_text), Len(result)),
                         Len(result)),
              SubSeq(located, 1, Len(located) - 1))

\* The splice loop of BatchEditNoteHandler over the located edits in order
RECURSIVE ApplyLocated(_, _)
ApplyLocated(result, located) ==
    IF located = <<>> THEN result
    ELSE LET le == Head(located)
         IN ApplyLocated(
              Slice(result, 0, le.offset) \o le.new_text
                \o Slice(result, le.offset + Len(le.old_text), Len(result)),
              Tail(located))

\* BatchEditNoteHandler from the validation on, d the content read
BatchEditBody(d, edits) ==
    LET contentStr == d
        v == validateBatchEdits(contentStr, edits)
    IN IF ~v.ok
       THEN Rejected(v.err, v.detail, d)
       ELSE Written(<<Len(edits)>>, d,
                    ApplyLocated(contentStr, SortSlice(v.located, OffsetDesc)))

\* BatchEditNoteHandler on the vault whose note holds d, st the status of its
\* path; jsonOk says whether the edits parameter parsed as a JSON array
BatchEditNote(d, st, jsonOk, edits) ==
    IF st = "unsafe"
    THEN Refused("path must be within vault", d)
    ELSE IF ~jsonOk
    THEN Refused("Invalid edits JSON", d)
    ELSE IF Len(edits) = 0
    THEN Refused("edits array is empty", d)
    ELSE IF st = "missing"
    THEN Refused("Note not found", d)
    ELSE BatchEditBody(d, edits)

(***************************************************************************)
(* The context excerpt of an edit.                                         *)
(***************************************************************************)
maxContextLineChars == 200

maxContextContentPreview == 2

\* truncateLine; the indicator "... [n chars total]" is one element
truncateLine(line, maxChars) ==
    IF Len(line) <= maxChars THEN line
    ELSE Slice(line, 0, maxChars) \o <<[total |-> Len(line)]>>

\* A line of the excerpt, "L%d: %s%s\n": its number, its text and its marker
ContextLine(n, text, marker) == [n |-> n, text |-> text, marker |-> marker, more |-> 0]

\* The line "     [... %d more lines ...]\n"
MoreLines(count) == [n |-> 0, text |-> <<>>, marker |-> "", more |-> count]

\* writeContentPreview
writeContentPreview(contentLines, startLine, label) ==
    LET shown(i) == ContextLine(startLine + i + 1,
                                truncateLine(contentLines[i + 1], maxContextLineChars),
                                IF i = 0 THEN label ELSE "")
        n == Len(contentLines)
    IN IF n <= maxContextContentPreview * 2 + 1
       THEN [k \in 1..n |-> shown(k - 1)]
       ELSE [k \in 1..maxContextContentPreview |-> shown(k - 1)]
              \o <<MoreLines(n - maxContextContentPreview * 2)>>
              \o [k \in 1..maxContextContentPreview |->
                    shown(n - maxContextContentPreview + k - 1)]

\* The lines of allLines with the 0-based indices from..(to - 1), as the
\* excerpt shows them
PlainLines(allLines, from, to) ==
    [k \in 1..(IF to > from THEN to - from ELSE 0) |->
        ContextLine(from + k, truncateLine(allLines[from + k], maxContextLineChars), "")]

\* buildEditContext
buildEditContext(allLines, editStart, editEnd, contextN, insertedLines) ==
    LET beforeStart == IF editStart - contextN < 0 THEN 0 ELSE editStart - contextN
        editLen == editEnd - editStart
        afterEnd == Min(editEnd + contextN, Len(allLines))
        region == IF editLen <= 0 /\ Len(insertedLines) > 0
                  THEN writeContentPreview(insertedLines, editStart, "INSERTED")
                  ELSE IF Len(insertedLines) > 0
                  THEN writeContentPreview(insertedLines, editStart, "CHANGED")
                  ELSE PlainLines(allLines, editStart, Min(editEnd, Len(allLines)))
    IN IF contextN <= 0 THEN <<>>
       ELSE PlainLines(allLines, beforeStart, editStart) \o region
              \o PlainLines(allLines, editEnd, afterEnd)

\* The excerpt BatchEditNoteHandler adds for context_lines > 0: located holds
\* the edits by descending offset, result is the content written
BatchContext(result, located, contextN) ==
    LET firstEdit == located[Len(located)]
        newLines == Split(result, NL)
        replacementLines == Split(firstEdit.new_text, NL)
        idx == Index(result, firstEdit.new_text)
        editStartLine == Count(Slice(result, 0, idx), <<NL>>)
        editEndLine == editStartLine + Len(replacementLines)
    IN IF idx >= 0
       THEN buildEditContext(newLines, editStartLine, editEndLine, contextN, replacementLines)
       ELSE <<>>

\* BatchEditNoteHandler called with context_lines: the result reports the
\* number of edits applied and, for context_lines > 0, the excerpt
BatchEditNoteContext(d, st, jsonOk, edits, contextN) ==
    Bind(BatchEditNote(d, st, jsonOk, edits), LAMBDA o :
        IF o.res.ok /\ contextN > 0
        THEN Bind(SortSlice(validateBatchEdits(d, edits).located, OffsetDesc), LAMBDA located :
                 Outcome(Success(Append(o.res.detail, BatchContext(o.disk, located, contextN))),
                         o.snap, o.io, o.disk))
        ELSE o)

(***************************************************************************)
(* Section Replace Engine                                                  *)
(***************************************************************************)
\* The number of leading '#' of a line
RECURSIVE LeadingHashes(_)
LeadingHashes(line) ==
    IF line # <<>> /\ Head(line) = HASH THEN 1 + LeadingHashes(Tail(line)) ELSE 0

\* headingRegex.FindStringSubmatch(line): a run of '#' (the level), at least
\* one white-space character, then the heading text: [matched, level, text]
HeadingMatch(line) ==
    LET n == LeadingHashes(line)
        rest == SubSeq(line, n + 1, Len(line))
    IN IF n >= 1 /\ Len(rest) >= 2 /\ rest[1] \in WhiteSpace
       THEN [matched |-> TRUE, level |-> n, text |-> rest]
       ELSE [matched |-> FALSE, level |-> 0, text |-> <<>>]

\* A mutant of the boundary scan that ends a section only at a heading of a
\* strictly lower level.
RECURSIVE SectionScanStrict(_, _, _, _, _)
SectionScanStrict(lines, heading, i, sectionStart, sectionLevel) ==
    IF i >= Len(lines)
    THEN [start |-> sectionStart, end |-> -1, level |-> sectionLevel]
    ELSE LET m == HeadingMatch(lines[i + 1])
         IN IF m.matched /\ sectionStart = -1 /\ EqualFold(TrimSpace(m.text), heading)
            THEN SectionScanStrict(lines, heading, i + 1, i, m.level)
            ELSE IF m.matched /\ sectionStart >= 0 /\ m.level < sectionLevel
            THEN [start |-> sectionStart, end |-> i, level |-> sectionLevel]
            ELSE SectionScanStrict(lines, heading, i + 1, sectionStart, sectionLevel)

\* The boundary scan of ReplaceSectionHandler from line index i on (0-based):
\* [start, end, level], -1 for an index not found
RECURSIVE SectionScan(_, _, _, _, _)
SectionScan(lines, heading, i, sectionStart, sectionLevel) ==
    IF i >= Len(lines)
    THEN [start |-> sectionStart, end |-> -1, level |-> sectionLevel]
    ELSE LET m == HeadingMatch(lines[i + 1])
         IN IF m.matched /\ sectionStart = -1 /\ EqualFold(TrimSpace(m.text), heading)
            THEN SectionScan(lines, heading, i + 1, i, m.level)
            ELSE IF m.matched /\ sectionStart >= 0 /\ m.level <= sectionLevel
            THEN [start |-> sectionStart, end |-> i, level |-> sectionLevel]
            ELSE SectionScan(lines, heading, i + 1, sectionStart, sectionLevel)

\* A mutant of the normalisation that keeps the content's trailing newlines.
NewContentLinesUntrimmed(sectionContent) ==
    Split(<<NL>> \o sectionContent \o <<NL>>, NL)

\* The lines put in place of the section: the content without its trailing
\* newlines, between two blank lines
NewContentLines(sectionContent) ==
    LET normalizedContent == TrimRight(sectionContent, {NL})
    IN Split(<<NL>> \o normalizedContent \o <<NL>>, NL)

\* A mutant of the handler's body without the heading-not-found check.
ReplaceSectionBodyUnchecked(d, heading, sectionContent) ==
    LET lines == Split(d, NL)
        b == SectionScan(lines, heading, 0, -1, 0)
        sectionEnd == IF b.end = -1 THEN Len(lines) ELSE b.end
        contentStart == b.start + 1
        newContentLines == NewContentLines(sectionContent)
        result == SubSeq(lines, 1, contentStart) \o newContentLines
                    \o SubSeq(lines, sectionEnd + 1, Len(lines))
    IN Written(<<sectionEnd - contentStart, Len(newContentLines)>>, d,
               Join(result, NL))

\* ReplaceSectionHandler from the split into lines on, d the content read
ReplaceSectionBody(d, heading, sectionContent) ==
    LET lines == Split(d, NL)
        b == SectionScan(lines, heading, 0, -1, 0)
        sectionEnd == IF b.end = -1 THEN Len(lines) ELSE b.end
        contentStart == b.start + 1
        linesReplaced == sectionEnd - contentStart
        newContentLines == NewContentLines(sectionContent)
        result == SubSeq(lines, 1, contentStart) \o newContentLines
                    \o SubSeq(lines, sectionEnd + 1, Len(lines))
        finalContent == Join(result, NL)
    IN IF b.start = -1
       THEN Rejected("Heading not found", <<>>, d)
       ELSE Written(<<linesReplaced, Len(newContentLines)>>, d, finalContent)

\* ReplaceSectionHandler on the vault whose note holds d, st the status of
\* its path
ReplaceSection(d, st, heading, sectionContent) ==
    IF st = "unsafe"
    THEN Refused("path must be within vault", d)
    ELSE IF st = "missing"
    THEN Refused("Note not found", d)
    ELSE ReplaceSectionBody(d, heading, sectionContent)

(***************************************************************************)
(* The engines as state machines: one note, one call at a time.            *)
(***************************************************************************)
Alphabet == {"a", "b"}

\* Texts to search for
Texts == SeqsUpTo(Alphabet, MaxTextLen)

\* The state after a call
Apply(r, o) ==
    /\ req' = r
    /\ res' = o.res
    /\ snap' = o.snap
    /\ io' = o.io
    /\ disk' = o.disk

\* A vault whose note holds one of the contents in docs, no call made yet
Start(docs) ==
    /\ disk \in docs
    /\ req = NoReq
    /\ res = NoRes
    /\ snap = <<>>
    /\ io = <<>>

\* The engine is driven serially: a call starts when the previous one has
\* returned.  Only the notes in docs are edited further.
Idle(docs) == req = NoReq /\ disk \in docs

\* The result is handed to the caller; the note stays as the call left it
Return ==
    /\ req # NoReq
    /\ req' = NoReq
    /\ res' = NoRes
    /\ snap' = <<>>
    /\ io' = <<>>
    /\ UNCHANGED disk

\* The path parameters with what the prologue finds for each
PathCases == {[path |-> p, status |-> PathStatus(p)] : p \in NotePaths}

\* The other parameters of a call on the path pc: every value in all when it
\* names the note, one sample when the call is refused for its path
ParamsFor(pc, all, sample) == IF pc.status = "note" THEN all ELSE {sample}

(***************************************************************************)
(* The single-edit engine.                                                 *)
(***************************************************************************)
Docs == SeqsUpTo(Alphabet, MaxDocLen)

\* Replacement texts: shorter than, as long as and longer than what they replace
NewTexts == SeqsUpTo({"a"}, MaxTextLen)

Init == Start(Docs)

EditNoteHandler ==
    /\ Idle(Docs)
    /\ \E pc \in PathCases :
         \E o \in ParamsFor(pc, Texts, <<"a">>), n \in ParamsFor(pc, NewTexts, <<>>),
            ra \in BOOLEAN :
            Apply([op |-> "edit", path |-> pc.path, old_text |-> o, new_text |-> n,
                   replace_all |-> ra],
                  EditNote(disk, pc.status, o, n, ra))

Next ==
    \/ Return
    \/ EditNoteHandler

Spec == Init /\ [][Next]_vars

(***************************************************************************)
(* The batch-edit engine.                                                  *)
(***************************************************************************)
BatchDocs == SeqsUpTo(Alphabet, MaxBatchDocLen)

\* Replacement texts of a batch: the empty text and the longest one
BatchNewTexts == {<<>>, [i \in 1..MaxTextLen |-> "a"]}

EditEntries == [old_text : Texts, new_text : BatchNewTexts]

Batches == SeqsUpTo(EditEntries, MaxBatch)

SampleBatch == <<[old_text |-> <<"a">>, new_text |-> <<>>]>>

InitBatch == Start(BatchDocs)

BatchEditNoteHandler ==
    /\ Idle(BatchDocs)
    /\ \E pc \in PathCases :
         \E edits \in ParamsFor(pc, Batches, SampleBatch) :
            Apply([op |-> "batch", path |-> pc.path, json_ok |-> TRUE, edits |-> edits],
                  BatchEditNote(disk, pc.status, TRUE, edits))

BatchEditNoteHandlerBadJSON ==
    /\ Idle(BatchDocs)
    /\ \E pc \in PathCases :
         Apply([op |-> "batch", path |-> pc.path, json_ok |-> FALSE, edits |-> <<>>],
               BatchEditNote(disk, pc.status, FALSE, <<>>))

NextBatch ==
    \/ Return
    \/ BatchEditNoteHandler
    \/ BatchEditNoteHandlerBadJSON

SpecBatch == InitBatch /\ [][NextBatch]_vars

\* Batches of up to three edits, each searching for a text of the note and
\* deleting it
OverlapBatches == SeqsUpTo([old_text : Texts, new_text : {<<>>}], MaxOverlapBatch)

InitOverlap == Start(Docs)

BatchEditNoteHandlerOverlap ==
    /\ Idle(Docs)
    /\ \E pc \in PathCases :
         \E edits \in ParamsFor(pc, OverlapBatches, SampleBatch) :
            Apply([op |-> "batch", path |-> pc.path, json_ok |-> TRUE, edits |-> edits],
                  BatchEditNote(disk, pc.status, TRUE, edits))

NextOverlap ==
    \/ Return
    \/ BatchEditNoteHandlerOverlap

SpecOverlap == InitOverlap /\ [][NextOverlap]_vars

(***************************************************************************)
(* The section engine as a state machine over notes made of lines.         *)
(***************************************************************************)
\* "# H", "## h", "# S" and a text line
DocLines ==
    { <<HASH, SP, "H">>, <<HASH, HASH, SP, "h">>, <<HASH, SP, "S">>, <<"x">> }

\* "# H\n\nold line\n\n## Sub\nkeep"
ExampleDoc ==
    <<HASH, SP, "H", NL, NL, "o", "l", "d", SP, "l", "i", "n", "e", NL, NL,
      HASH, HASH, SP, "S", "u", "b", NL, "k", "e", "e", "p">>

\* "new line"
ExampleContent == <<"n", "e", "w", SP, "l", "i", "n", "e">>

SectionDocs ==
    {Join(ls, NL) : ls \in SeqsUpTo(DocLines, MaxLines)} \cup {ExampleDoc}

Titles == { <<"H">>, <<"S">>, <<"Z">> }

\* Lines of supplied content: text, blank, and headings of two levels
ContentLines == { <<"y">>, <<>>, <<HASH, SP, "S">>, <<HASH, HASH, SP, "h">> }

Contents ==
    {Join(ls, NL) : ls \in SeqsUpTo(ContentLines, MaxContentLines)}
        \cup {ExampleContent}

InitSection == Start(SectionDocs)

ReplaceSectionHandler ==
    /\ Idle(SectionDocs)
    /\ \E pc \in PathCases :
         \E h \in ParamsFor(pc, Titles, <<"H">>), c \in ParamsFor(pc, Contents, <<>>) :
            Apply([op |-> "section", path |-> pc.path, heading |-> h, content |-> c],
                  ReplaceSection(disk, pc.status, h, c))

NextSection ==
    \/ Return
    \/ ReplaceSectionHandler

SpecSection == InitSection /\ [][NextSection]_vars

(***************************************************************************)
(* The batch engine called for an excerpt, on notes of several lines.      *)
(***************************************************************************)
ContextAlphabet == {"a", "b", NL}

ContextDocs == SeqsUpTo(ContextAlphabet, MaxContextDocLen)

\* Texts to search for: one byte, or none
ContextOldTexts == {<<>>} \cup { <<x>> : x \in ContextAlphabet }

\* Replacement texts: the empty text, a text of the note, a text of two lines
ContextNewTexts == { <<>>, <<"a">>, <<"b", NL, "b">> }

ContextBatches ==
    SeqsUpTo([old_text : ContextOldTexts, new_text : ContextNewTexts], MaxBatch)

\* Values of context_lines
ContextNs == {1}

InitContext == Start(ContextDocs)

BatchEditNoteHandlerContext ==
    /\ Idle(ContextDocs)
    /\ \E pc \in PathCases :
         \E edits \in ParamsFor(pc, ContextBatches, SampleBatch), n \in ContextNs :
            Apply([op |-> "batch", path |-> pc.path, json_ok |-> TRUE, edits |-> edits,
                   context_lines |-> n],
                  BatchEditNoteContext(disk, pc.status, TRUE, edits, n))

NextContext ==
    \/ Return
    \/ BatchEditNoteHandlerContext

SpecContext == InitContext /\ [][NextContext]_vars

(***************************************************************************)
(* The three engines on one vault: any of the handlers may be called next. *)
(***************************************************************************)
EngineDocs == Docs \cup BatchDocs \cup SectionDocs

InitEngines == Start(EngineDocs)

NextEngines ==
    \/ Return
    \/ EditNoteHandler
    \/ BatchEditNoteHandler
    \/ BatchEditNoteHandlerBadJSON
    \/ ReplaceSectionHandler

SpecEngines == InitEngines /\ [][NextEngines]_vars

(***************************************************************************)
(* The path guard as a state machine: a vault root and a caller's path.    *)
(***************************************************************************)
PathChars == {DOT, SEP, "v"}

\* Caller-supplied relative paths
RelPaths == SeqsUpTo(PathChars, MaxPathLen)

\* Vault roots as vault.New stores them: "/", "/v" and "/v/v"
VaultRoots == { <<SEP>>, <<SEP, "v">>, <<SEP, "v", SEP, "v">> }

\* What every handler does with a path parameter before it touches a file:
\* join it to the vault root and ask the guard
GuardedJoin(root, p) ==
    LET fullPath == FilepathJoin(root, p)
    IN IF ~isPathSafe(root, fullPath)
       THEN Refused("path must be within vault", <<>>)
       ELSE Outcome(Success(fullPath), <<>>, <<>>, <<>>)

InitPath == Start({<<>>})

PathGuard ==
    /\ req = NoReq
    /\ \E root \in VaultRoots, p \in RelPaths :
         Apply([op |-> "guard", root |-> root, path |-> p], GuardedJoin(root, p))

NextPath ==
    \/ Return
    \/ PathGuard

SpecPath == InitPath /\ [][NextPath]_vars

(***************************************************************************)
(* Frontmatter Mutator: line-based edits of the block between two marker   *)
(* lines at the top of a document.                                         *)
(***************************************************************************)
DASH == "-"

COLON == ":"

\* The marker line "---"
Marker == <<DASH, DASH, DASH>>

\* strings.ToLower on the letters the model uses
ToLower(s) == [k \in 1..Len(s) |-> Lower(s[k])]

\* The line number of the first marker line at or after line i, 0 if none
RECURSIVE ClosingMarker(_, _)
ClosingMarker(lines, i) ==
    IF i > Len(lines) THEN 0
    ELSE IF lines[i] = Marker THEN i
    ELSE ClosingMarker(lines, i + 1)

\* The line number of the closing marker of the frontmatter block, 0 when
\* the document has no block (no marker on line 1, or no closing marker)
BlockEnd(lines) ==
    IF Len(lines) >= 1 /\ lines[1] = Marker THEN ClosingMarker(lines, 2) ELSE 0

\* The key a `key: value` line holds, folded to lower case; <<>> for a line
\* that holds none
KeyOfLine(line) ==
    LET i == Index(line, <<COLON>>)
    IN IF i <= 0 THEN <<>> ELSE ToLower(TrimSpace(Slice(line, 0, i)))

\* What a `key: value` line holds after the colon
ValueOfLine(line) ==
    LET i == Index(line, <<COLON>>)
    IN IF i < 0 THEN <<>> ELSE TrimSpace(Slice(line, i + 1, Len(line)))

\* The line number of the first line of the block (markers at 1 and end)
\* that holds the key k, 0 if there is none
RECURSIVE KeyLineFrom(_, _, _, _)
KeyLineFrom(lines, end, k, i) ==
    IF i >= end THEN 0
    ELSE IF KeyOfLine(lines[i]) = k THEN i
    ELSE KeyLineFrom(lines, end, k, i + 1)

KeyLine(lines, end, k) == KeyLineFrom(lines, end, k, 2)

\* The line `key: value`
ScalarLine(k, value) == k \o <<COLON, SP>> \o value

\* lines with the sequence ins inserted before line number at
InsertBefore(lines, at, ins) ==
    SubSeq(lines, 1, at - 1) \o ins \o SubSeq(lines, at, Len(lines))

\* lines without line number at
DeleteLine(lines, at) ==
    SubSeq(lines, 1, at - 1) \o SubSeq(lines, at + 1, Len(lines))

\* A set-key that always adds a line before the closing marker.
setFrontmatterKeyAppend(content, key, value) ==
    LET lines == Split(content, NL)
        k == ToLower(key)
        end == BlockEnd(lines)
    IN IF end = 0
       THEN Marker \o <<NL>> \o ScalarLine(k, value) \o <<NL>> \o Marker
              \o <<NL, NL>> \o content
       ELSE Join(InsertBefore(lines, end, <<ScalarLine(k, value)>>), NL)

\* Set key
setFrontmatterKey(content, key, value) ==
    LET lines == Split(content, NL)
        k == ToLower(key)
        end == BlockEnd(lines)
        at == KeyLine(lines, end, k)
    IN IF end = 0
       THEN Marker \o <<NL>> \o ScalarLine(k, value) \o <<NL>> \o Marker
              \o <<NL, NL>> \o content
       ELSE IF at > 0
       THEN Join([lines EXCEPT ![at] = ScalarLine(k, value)], NL)
       ELSE Join(InsertBefore(lines, end, <<ScalarLine(k, value)>>), NL)

\* A remove-key that deletes the key's line and never the block.
removeFrontmatterKeyLineOnly(content, key) ==
    LET lines == Split(content, NL)
        end == BlockEnd(lines)
        at == KeyLine(lines, end, ToLower(key))
    IN IF end = 0 \/ at = 0
       THEN [content |-> content, removed |-> FALSE]
       ELSE [content |-> Join(DeleteLine(lines, at), NL), removed |-> TRUE]

\* Remove key: [content, removed]
removeFrontmatterKey(content, key) ==
    LET lines == Split(content, NL)
        end == BlockEnd(lines)
        at == KeyLine(lines, end, ToLower(key))
        emptied == \A i \in 2..(end - 1) : i = at \/ TrimSpace(lines[i]) = <<>>
        body == Join(SubSeq(lines, end + 1, Len(lines)), NL)
    IN IF end = 0 \/ at = 0
       THEN [content |-> content, removed |-> FALSE]
       ELSE IF emptied
       THEN [content |-> TrimLeft(body, {NL}), removed |-> TRUE]
       ELSE [content |-> Join(DeleteLine(lines, at), NL), removed |-> TRUE]

\* The line of a dash-list that holds value
DashLine(value) == <<SP, SP, DASH, SP>> \o value

IsDashLine(line) == HasPrefix(TrimSpace(line), <<DASH, SP>>)

\* A value in inline bracket form
IsInlineList(v) == HasPrefix(v, <<"[">>) /\ HasSuffix(v, <<"]">>) /\ Len(v) >= 2

\* The elements of an inline list `[a, b]`, in order
InlineElements(v) ==
    LET parts == Split(Slice(v, 1, Len(v) - 1), ",")
        trimmed == [i \in 1..Len(parts) |-> TrimSpace(parts[i])]
    IN SelectSeq(trimmed, LAMBDA e : e # <<>>)

\* The line number of the last dash line of the run that follows line at
RECURSIVE LastDashLine(_, _, _)
LastDashLine(lines, end, at) ==
    IF at + 1 < end /\ IsDashLine(lines[at + 1])
    THEN LastDashLine(lines, end, at + 1)
    ELSE at

\* An append that leaves an inline list where it is and adds a dash line.
addToFrontmatterArrayKeepInline(content, key, value) ==
    LET lines == Split(content, NL)
        k == ToLower(key)
        end == BlockEnd(lines)
        at == KeyLine(lines, end, k)
        created == <<k \o <<COLON>>, DashLine(value)>>
    IN IF end = 0
       THEN Join(<<Marker>> \o created \o <<Marker, <<>>, content>>, NL)
       ELSE IF at = 0
       THEN Join(InsertBefore(lines, end, created), NL)
       ELSE Join(InsertBefore(lines, LastDashLine(lines, end, at) + 1,
                              <<DashLine(value)>>), NL)

\* Append to array-valued key
addToFrontmatterArray(content, key, value) ==
    LET lines == Split(content, NL)
        k == ToLower(key)
        end == BlockEnd(lines)
        at == KeyLine(lines, end, k)
        created == <<k \o <<COLON>>, DashLine(value)>>
    IN IF end = 0
       THEN Join(<<Marker>> \o created \o <<Marker, <<>>, content>>, NL)
       ELSE IF at = 0
       THEN Join(InsertBefore(lines, end, created), NL)
       ELSE IF IsInlineList(ValueOfLine(lines[at]))
       THEN LET elems == InlineElements(ValueOfLine(lines[at]))
                dashes == [i \in 1..Len(elems) |-> DashLine(elems[i])]
            IN Join(SubSeq(lines, 1, at - 1) \o <<k \o <<COLON>>>> \o dashes
                      \o <<DashLine(value)>> \o SubSeq(lines, at + 1, Len(lines)),
                    NL)
       ELSE Join(InsertBefore(lines, LastDashLine(lines, end, at) + 1,
                              <<DashLine(value)>>), NL)

(***************************************************************************)
(* The frontmatter mutator as a state machine: a document in memory and    *)
(* one of the three operations applied to it.                              *)
(***************************************************************************)
\* "---", "s: x", "t: x", "s: [a, b]", "s:", "  - a" and a blank line
FmLines ==
    { Marker, <<"s", COLON, SP, "x">>, <<"t", COLON, SP, "x">>,
      <<"s", COLON, SP, "[", "a", ",", SP, "b", "]">>, <<"s", COLON>>,
      <<SP, SP, DASH, SP, "a">>, <<>> }

\* What may follow those lines: nothing, or a blank line and a body line
FmTails == { <<>>, << <<>>, <<"b">> >> }

FmDocs == {Join(ls \o tail, NL) : ls \in SeqsUpTo(FmLines, MaxFmLines), tail \in FmTails}

\* The key as the caller writes it: the lines hold it in lower case
FmKeys == { <<"S">> }

FmValues == { <<"y">> }

InitFrontmatter == Start(FmDocs)

\* The result of a string-in/string-out operation: no file is touched
Computed(detail, content, newContent) ==
    Outcome(Success(detail), content, <<>>, newContent)

SetFrontmatterKey ==
    /\ Idle(FmDocs)
    /\ \E k \in FmKeys, v \in FmValues :
         Apply([op |-> "set", key |-> k, value |-> v],
               Computed(<<>>, disk, setFrontmatterKey(disk, k, v)))

RemoveFrontmatterKey ==
    /\ Idle(FmDocs)
    /\ \E k \in FmKeys :
         LET r == removeFrontmatterKey(disk, k)
         IN Apply([op |-> "remove", key |-> k], Computed(<<r.removed>>, disk, r.content))

AddToFrontmatterArray ==
    /\ Idle(FmDocs)
    /\ \E k \in FmKeys, v \in FmValues :
         Apply([op |-> "append", key |-> k, value |-> v],
               Computed(<<>>, disk, addToFrontmatterArray(disk, k, v)))

NextFrontmatter ==
    \/ Return
    \/ SetFrontmatterKey
    \/ RemoveFrontmatterKey
    \/ AddToFrontmatterArray

SpecFrontmatter == InitFrontmatter /\ [][NextFrontmatter]_vars

(***************************************************************************)
(* The vault as a set of files, and the handlers that work on several of   *)
(* them.  A store maps each path to a file: whether it exists and what it  *)
(* holds.  Every handler returns its result, the store it found, the file  *)
(* operations it performed (each with the path it was given) and the store *)
(* it leaves.                                                              *)
(***************************************************************************)
NoFile == [exists |-> FALSE, content |-> <<>>]

File(content) == [exists |-> TRUE, content |-> content]

\* os.Stat / os.ReadFile find a file at path
Exists(store, path) == path \in DOMAIN store /\ store[path].exists

\* A file operation on a path
FileOp(op, path) == [op |-> op, path |-> path]

\* filepath.Base
Base(p) ==
    LET trimmed == TrimRight(p, {SEP})
        parts == Split(trimmed, SEP)
    IN IF p = <<>> THEN <<DOT>>
       ELSE IF trimmed = <<>> THEN <<SEP>>
       ELSE parts[Len(parts)]

\* filepath.Dir
Dir(p) ==
    LET last == CHOOSE i \in 0..Len(p) :
                    /\ (i = 0 \/ p[i] = SEP)
                    /\ \A j \in (i + 1)..Len(p) : p[j] # SEP
    IN Clean(SubSeq(p, 1, last))

\* strings.TrimSuffix
TrimSuffix(s, suffix) ==
    IF HasSuffix(s, suffix) THEN SubSeq(s, 1, Len(s) - Len(suffix)) ELSE s

\* if !strings.HasSuffix(p, ".md") { p += ".md" }
WithMD(p) == IF HasSuffix(p, MD) THEN p ELSE p \o MD

LL == <<"[", "[">>

RR == <<"]", "]">>

PIPE == "|"

\* updateWikilinks
updateWikilinks(content, oldName, newName) ==
    LET first == ReplaceAll(content, LL \o oldName \o RR, LL \o newName \o RR)
    IN ReplaceAll(first, LL \o oldName \o <<PIPE>>, LL \o newName \o <<PIPE>>)

\* The files filepath.Walk(v.path) visits, in its (lexical) order: the
\* existing files below the vault root
RECURSIVE WalkFiles(_, _, _)
WalkFiles(store, order, i) ==
    IF i > Len(order) THEN <<>>
    ELSE (IF Exists(store, order[i]) /\ HasPrefix(order[i], VaultPath \o <<SEP>>)
             /\ HasSuffix(order[i], MD)
          THEN <<order[i]>> ELSE <<>>) \o WalkFiles(store, order, i + 1)

\* What a loop over files or paths has done so far
Progress(store, done, failed, ops) ==
    [store |-> store, done |-> done, failed |-> failed, io |-> ops]

\* A link rewriter that writes every document it reads.
UpdateLinksVisitAlways(acc, path, contentStr, newContent) ==
    Progress([acc.store EXCEPT ![path] = File(newContent)],
             Append(acc.done, path), acc.failed,
             acc.io \o <<FileOp("read", path), FileOp("write", path)>>)

\* The walk function of updateLinksInVault on the file at path, which holds
\* contentStr and is to hold newContent
UpdateLinksVisit(acc, path, contentStr, newContent) ==
    IF newContent # contentStr
    THEN Progress([acc.store EXCEPT ![path] = File(newContent)],
                  Append(acc.done, path), acc.failed,
                  acc.io \o <<FileOp("read", path), FileOp("write", path)>>)
    ELSE Progress(acc.store, acc.done, acc.failed, Append(acc.io, FileOp("read", path)))

\* filepath.Walk calling the walk function of updateLinksInVault on the
\* files of the vault, from the i-th on
RECURSIVE UpdateLinksWalk(_, _, _, _, _)
UpdateLinksWalk(acc, files, oldName, newName, i) ==
    IF i > Len(files) THEN acc
    ELSE UpdateLinksWalk(
             Bind(acc, LAMBDA a :
                 Bind(a.store[files[i]].content, LAMBDA contentStr :
                     Bind(updateWikilinks(contentStr, oldName, newName), LAMBDA newContent :
                         UpdateLinksVisit(a, files[i], contentStr, newContent)))),
             files, oldName, newName, i + 1)

\* The paths of the files the model keeps, in the order filepath.Walk meets
\* them: two outside the vault /v, two at its root, and two in each of the
\* folders d and e
StoreOrder ==
    << <<SEP, "a">> \o MD, <<SEP, "b">> \o MD,
       <<SEP, "v", SEP, "a">> \o MD, <<SEP, "v", SEP, "b">> \o MD,
       <<SEP, "v", SEP, "d", SEP, "a">> \o MD, <<SEP, "v", SEP, "d", SEP, "b">> \o MD,
       <<SEP, "v", SEP, "e", SEP, "a">> \o MD, <<SEP, "v", SEP, "e", SEP, "b">> \o MD >>

StorePaths == {StoreOrder[i] : i \in 1..Len(StoreOrder)}

\* updateLinksInVault
updateLinksInVault(store, oldName, newName) ==
    Bind(store, LAMBDA s :
        Bind(WalkFiles(s, StoreOrder, 1), LAMBDA files :
            UpdateLinksWalk(Progress(s, <<>>, <<>>, <<>>), files, oldName, newName, 1)))

\* A failed path of a bulk operation, with the reason the report gives
Failed(p, why) == [path |-> p, why |-> why]

\* The text result of a bulk operation: the paths done and the paths failed
Report(done, failed) == Success([done |-> done, failed |-> failed])

\* What the body of the loop of BulkMoveHandler leaves once the note is moved
\* and links is what updateLinksInVault did after it
BulkMoveDone(acc, p, oldPath, newPath, links) ==
    Progress(links.store, Append(acc.done, p), acc.failed,
             acc.io \o <<FileOp("stat", oldPath), FileOp("stat", newPath),
                         FileOp("rename", oldPath), FileOp("rename", newPath)>>
                    \o links.io)

\* A move that does not look at the destination before it moves.
BulkMoveOneOverwriting(acc, p, oldPath, newPath, updateLinks) ==
    IF ~Exists(acc.store, oldPath)
    THEN Progress(acc.store, acc.done, Append(acc.failed, Failed(p, "not found")),
                  Append(acc.io, FileOp("stat", oldPath)))
    ELSE Progress([acc.store EXCEPT ![oldPath] = NoFile, ![newPath] = acc.store[oldPath]],
                  Append(acc.done, p), acc.failed,
                  acc.io \o <<FileOp("stat", oldPath), FileOp("rename", oldPath),
                              FileOp("rename", newPath)>>)

\* The body of the loop of BulkMoveHandler for the path p, which is the file
\* oldPath and is to become the file newPath
BulkMoveOne(acc, p, oldPath, newPath, updateLinks) ==
    IF ~Exists(acc.store, oldPath)
    THEN Progress(acc.store, acc.done, Append(acc.failed, Failed(p, "not found")),
                  Append(acc.io, FileOp("stat", oldPath)))
    ELSE IF Exists(acc.store, newPath)
    THEN Progress(acc.store, acc.done,
                  Append(acc.failed, Failed(p, "already exists at destination")),
                  acc.io \o <<FileOp("stat", oldPath), FileOp("stat", newPath)>>)
    ELSE Bind([acc.store EXCEPT ![oldPath] = NoFile, ![newPath] = acc.store[oldPath]],
              LAMBDA moved :
                  Bind(TrimSuffix(Base(p), MD), LAMBDA oldName :
                      Bind(IF updateLinks THEN updateLinksInVault(moved, oldName, oldName)
                           ELSE Progress(moved, <<>>, <<>>, <<>>),
                           LAMBDA links : BulkMoveDone(acc, p, oldPath, newPath, links))))

\* The loop of BulkMoveHandler over the paths, from the i-th on
RECURSIVE BulkMoveLoop(_, _, _, _, _)
BulkMoveLoop(acc, paths, destination, updateLinks, i) ==
    IF i > Len(paths) THEN acc
    ELSE BulkMoveLoop(
             Bind(acc, LAMBDA a :
                 Bind(WithMD(paths[i]), LAMBDA p :
                     Bind(FilepathJoin(VaultPath, p), LAMBDA oldPath :
                         Bind(FilepathJoin(FilepathJoin(VaultPath, destination), Base(p)),
                              LAMBDA newPath :
                                  BulkMoveOne(a, p, oldPath, newPath, updateLinks))))),
             paths, destination, updateLinks, i + 1)

\* BulkMoveHandler; paths is the parsed list of the paths parameter
BulkMove(store, paths, destination, updateLinks) ==
    IF paths = <<>>
    THEN Outcome(Failure("at least one path is required", <<>>), store, <<>>, store)
    ELSE Bind(BulkMoveLoop(Progress(store, <<>>, <<>>,
                                    <<FileOp("mkdir", FilepathJoin(VaultPath, destination))>>),
                           paths, destination, updateLinks, 1),
              LAMBDA end : Outcome(Report(end.done, end.failed), store, end.io, end.store))

\* The body of the loop of BulkSetFrontmatterHandler for the path p, which is
\* the file fullPath
BulkSetOne(acc, p, fullPath, key, value) ==
    IF ~Exists(acc.store, fullPath)
    THEN Progress(acc.store, acc.done, Append(acc.failed, Failed(p, "read failed")),
                  Append(acc.io, FileOp("read", fullPath)))
    ELSE Progress([acc.store EXCEPT
                       ![fullPath] = File(setFrontmatterKey(acc.store[fullPath].content,
                                                            key, value))],
                  Append(acc.done, p), acc.failed,
                  acc.io \o <<FileOp("read", fullPath), FileOp("write", fullPath)>>)

\* The loop of BulkSetFrontmatterHandler over the paths, from the i-th on
RECURSIVE BulkSetLoop(_, _, _, _, _)
BulkSetLoop(acc, paths, key, value, i) ==
    IF i > Len(paths) THEN acc
    ELSE BulkSetLoop(
             Bind(acc, LAMBDA a :
                 Bind(WithMD(paths[i]), LAMBDA p :
                     Bind(FilepathJoin(VaultPath, p), LAMBDA fullPath :
                         BulkSetOne(a, p, fullPath, key, value)))),
             paths, key, value, i + 1)

\* BulkSetFrontmatterHandler; paths is the parsed list of the paths parameter
BulkSetFrontmatter(store, paths, key, value) ==
    IF paths = <<>>
    THEN Outcome(Failure("at least one path is required", <<>>), store, <<>>, store)
    ELSE Bind(BulkSetLoop(Progress(store, <<>>, <<>>, <<>>), paths, key, value, 1),
              LAMBDA end : Outcome(Report(end.done, end.failed), store, end.io, end.store))

\* The offset after a match of \[\[name\|([^\]]+)\]\] that starts at offset i
\* of s, -1 if none starts there
AliasMatchEnd(s, name, i) ==
    LET open == LL \o name \o <<PIPE>>
        from == i + Len(open)
        stops == {j \in from..(Len(s) - 1) : s[j + 1] = "]"}
        j == IF stops = {} THEN -1 ELSE CHOOSE m \in stops : \A n \in stops : m <= n
    IN IF MatchAt(s, open, i) /\ j > from /\ MatchAt(s, RR, j) THEN j + 2 ELSE -1

\* pattern.ReplaceAllString(s, "[[newName|$1]]") for that pattern, from offset i
RECURSIVE ReplaceAliased(_, _, _, _)
ReplaceAliased(s, name, newName, i) ==
    IF i >= Len(s) THEN <<>>
    ELSE LET e == AliasMatchEnd(s, name, i)
         IN IF e > 0
            THEN LL \o newName \o <<PIPE>> \o Slice(s, i + Len(name) + 3, e)
                   \o ReplaceAliased(s, name, newName, e)
            ELSE <<s[i + 1]>> \o ReplaceAliased(s, name, newName, i + 1)

\* The four replacements of RenameNoteHandler, applied in their order
RenameLinks(content, oldName, oldBase, newName, newBase) ==
    LET r1 == ReplaceAll(content, LL \o oldName \o RR, LL \o newName \o RR)
        r2 == ReplaceAliased(r1, oldName, newName, 0)
        r3 == ReplaceAll(r2, LL \o oldBase \o RR, LL \o newBase \o RR)
    IN ReplaceAliased(r3, oldBase, newBase, 0)

\* The walk function of RenameNoteHandler on the file at path, which holds
\* contentStr and is to hold newContent
RenameVisit(acc, path, contentStr, newContent) ==
    IF newContent # contentStr
    THEN Progress([acc.store EXCEPT ![path] = File(newContent)],
                  Append(acc.done, path), acc.failed,
                  acc.io \o <<FileOp("read", path), FileOp("write", path)>>)
    ELSE Progress(acc.store, acc.done, acc.failed, Append(acc.io, FileOp("read", path)))

\* filepath.Walk calling the walk function of RenameNoteHandler on the files
\* of the vault, from the i-th on; names holds the four names of the links
RECURSIVE RenameWalk(_, _, _, _, _)
RenameWalk(acc, files, oldFullPath, names, i) ==
    IF i > Len(files) THEN acc
    ELSE RenameWalk(
             IF files[i] = oldFullPath THEN acc
             ELSE Bind(acc, LAMBDA a :
                      Bind(a.store[files[i]].content, LAMBDA contentStr :
                          Bind(RenameLinks(contentStr, names.oldName, names.oldBase,
                                           names.newName, names.newBase),
                               LAMBDA newContent :
                                   RenameVisit(a, files[i], contentStr, newContent)))),
             files, oldFullPath, names, i + 1)

\* oldName, oldBaseName, newName and newBaseName of RenameNoteHandler
RenameNames(oldPath, newPath) ==
    [oldName |-> TrimSuffix(oldPath, MD), oldBase |-> TrimSuffix(Base(oldPath), MD),
     newName |-> TrimSuffix(newPath, MD), newBase |-> TrimSuffix(Base(newPath), MD)]

\* os.MkdirAll(dir) in RenameNoteHandler: it fails when dir, or a directory
\* above it, is a file of the store
MkdirAllFails(store, dir) ==
    \E q \in DOMAIN store :
        store[q].exists /\ (q = dir \/ HasPrefix(dir, Append(q, SEP)))

\* A rename that moves the note over whatever is at the destination.
RenameNoteAtOverwriting(store, oldPath, newPath, oldFullPath, newFullPath) ==
    IF ~HasSuffix(oldPath, MD) \/ ~HasSuffix(newPath, MD)
    THEN Outcome(Failure("paths must end with .md", <<>>), store, <<>>, store)
    ELSE IF ~isPathSafe(VaultPath, oldFullPath) \/ ~isPathSafe(VaultPath, newFullPath)
    THEN Outcome(Failure("paths must be within vault", <<>>), store, <<>>, store)
    ELSE Outcome(Report(<<>>, <<>>), store,
                 <<FileOp("rename", oldFullPath), FileOp("rename", newFullPath)>>,
                 [store EXCEPT ![oldFullPath] = NoFile, ![newFullPath] = store[oldFullPath]])

\* RenameNoteHandler once the two paths are joined to the vault's
RenameNoteAt(store, oldPath, newPath, oldFullPath, newFullPath) ==
    IF ~HasSuffix(oldPath, MD) \/ ~HasSuffix(newPath, MD)
    THEN Outcome(Failure("paths must end with .md", <<>>), store, <<>>, store)
    ELSE IF ~isPathSafe(VaultPath, oldFullPath) \/ ~isPathSafe(VaultPath, newFullPath)
    THEN Outcome(Failure("paths must be within vault", <<>>), store, <<>>, store)
    ELSE IF ~Exists(store, oldFullPath)
    THEN Outcome(Failure("Note not found", <<>>), store,
                 <<FileOp("stat", oldFullPath)>>, store)
    ELSE IF Exists(store, newFullPath)
    THEN Outcome(Failure("Destination already exists", <<>>), store,
                 <<FileOp("stat", oldFullPath), FileOp("stat", newFullPath)>>, store)
    ELSE Bind(WalkFiles(store, StoreOrder, 1), LAMBDA files :
             Bind(RenameNames(oldPath, newPath), LAMBDA names :
                 Bind(RenameWalk(Progress(store, <<>>, <<>>,
                                          <<FileOp("stat", oldFullPath),
                                            FileOp("stat", newFullPath)>>),
                                 files, oldFullPath, names, 1),
                      LAMBDA walked :
                          IF MkdirAllFails(walked.store, Dir(newFullPath))
                          THEN Outcome(Failure("Failed to create directory", <<>>), store,
                                       Append(walked.io,
                                              FileOp("mkdir", Dir(newFullPath))),
                                       walked.store)
                          ELSE Outcome(Report(walked.done, walked.failed), store,
                                       walked.io
                                         \o <<FileOp("mkdir", Dir(newFullPath)),
                                              FileOp("rename", oldFullPath),
                                              FileOp("rename", newFullPath)>>,
                                       [walked.store EXCEPT
                                            ![oldFullPath] = NoFile,
                                            ![newFullPath] = walked.store[oldFullPath]]))))

\* RenameNoteHandler
RenameNote(store, oldPath, newPath) ==
    Bind(FilepathJoin(VaultPath, oldPath), LAMBDA oldFullPath :
        Bind(FilepathJoin(VaultPath, newPath), LAMBDA newFullPath :
            RenameNoteAt(store, oldPath, newPath, oldFullPath, newFullPath)))

(***************************************************************************)
(* The vault handlers as a state machine: disk is the store, snap the      *)
(* store the call found, io the file operations of the call.               *)
(***************************************************************************)
\* "[[a]]", "[[a|x]][[b]]" and a document without links
VaultContents ==
    { LL \o <<"a">> \o RR,
      LL \o <<"a", PIPE, "x">> \o RR \o LL \o <<"b">> \o RR,
      <<"x">> }

VaultFiles == {NoFile} \cup {File(c) : c \in VaultContents}

\* The store with the given files at /a.md, /v/a.md, /v/b.md and /v/d/a.md
StoreOf(outside, a, b, da) ==
    [p \in StorePaths |->
        IF p = StoreOrder[1] THEN outside
        ELSE IF p = StoreOrder[3] THEN a
        ELSE IF p = StoreOrder[4] THEN b
        ELSE IF p = StoreOrder[5] THEN da
        ELSE NoFile]

\* The vaults a call may find
VaultStores ==
    { StoreOf(outside, a, b, da) :
        outside \in {NoFile, File(<<"x">>)}, a \in VaultFiles, b \in VaultFiles,
        da \in {NoFile, File(LL \o <<"a">> \o RR)} }

\* Paths as callers give them to the bulk handlers: a, b, d/a and ../a
BulkPathNames == { <<"a">>, <<"b">>, <<"d", SEP, "a">>, <<DOT, DOT, SEP, "a">> }

PathLists == SeqsUpTo(BulkPathNames, MaxBulkPaths)

\* Destination folders: d, e and ..
Destinations == { <<"d">>, <<"e">>, DOTDOT }

\* old_path and new_path of a rename: a.md, b.md, d/a.md, e/a.md, ../a.md, a
\* and b.md/a.md
RenamePaths ==
    { <<"a">> \o MD, <<"b">> \o MD, <<"d", SEP, "a">> \o MD, <<"e", SEP, "a">> \o MD,
      <<DOT, DOT, SEP, "a">> \o MD, <<"a">>, <<"b">> \o MD \o <<SEP, "a">> \o MD }

\* Note names given to the link rewriter
LinkNames == { <<"a">>, <<"b">> }

InitVault == Start(VaultStores)

BulkMoveHandler ==
    /\ Idle(VaultStores)
    /\ \E paths \in PathLists, dest \in Destinations, ul \in BOOLEAN :
         Apply([op |-> "bulk_move", paths |-> paths, destination |-> dest,
                update_links |-> ul],
               BulkMove(disk, paths, dest, ul))

BulkSetFrontmatterHandler ==
    /\ Idle(VaultStores)
    /\ \E paths \in PathLists, k \in FmKeys, v \in FmValues :
         Apply([op |-> "bulk_set", paths |-> paths, key |-> k, value |-> v],
               BulkSetFrontmatter(disk, paths, k, v))

RenameNoteHandler ==
    /\ Idle(VaultStores)
    /\ \E o \in RenamePaths, n \in RenamePaths :
         Apply([op |-> "rename", old_path |-> o, new_path |-> n], RenameNote(disk, o, n))

UpdateLinksInVault ==
    /\ Idle(VaultStores)
    /\ \E o \in LinkNames, n \in LinkNames :
         LET w == updateLinksInVault(disk, o, n)
         IN Apply([op |-> "update_links", old |-> o, new |-> n],
                  Outcome(Report(w.done, w.failed), disk, w.io, w.store))

NextVault ==
    \/ Return
    \/ BulkMoveHandler
    \/ BulkSetFrontmatterHandler
    \/ RenameNoteHandler
    \/ UpdateLinksInVault

SpecVault == InitVault /\ [][NextVault]_vars

(***************************************************************************)
(* Two calls on the same note in flight at once.  A handler reads the note *)
(* (os.ReadFile), computes in memory, and writes it back (os.WriteFile);   *)
(* the transport may run the steps of two calls in any order, and no       *)
(* handler takes a lock.  req, res and snap hold one entry per call; io is *)
(* the list of the file operations of the calls in flight, each with the   *)
(* call that performed it.                                                 *)
(***************************************************************************)
Calls == {"A", "B"}

\* A file operation of a call
CallOp(op, c) == [op |-> op, call |-> c]

\* A call in flight: its parameters and the step its handler has reached
InFlight(r, at) == [call |-> r, at |-> at]

\* The handler of the call r from the count or the validation on, for a note
\* that held content when the handler read it
BodyOf(r, content) ==
    IF r.op = "edit"
    THEN EditNoteBody(content, r.old_text, r.new_text, r.replace_all)
    ELSE BatchEditBody(content, r.edits)

\* A handler that computes its result from the note as it is when it writes.
InMemoryFromCurrent(r, content, current) == BodyOf(r, current)

\* What the handler of r computes between its read and its write: contentStr
\* is the content it read; current, the content of the note by the time of
\* the write, is not looked at
InMemory(r, content, current) == BodyOf(r, content)

RaceDocs == SeqsUpTo(Alphabet, MaxBatchDocLen)

\* Texts of one byte to search for
RaceTexts == { <<x>> : x \in Alphabet }

\* Single edits, and batches of one edit, on the note
RaceRequests ==
    {[op |-> "edit", old_text |-> o, new_text |-> n, replace_all |-> FALSE] :
        o \in RaceTexts, n \in BatchNewTexts}
    \cup {[op |-> "batch", edits |-> <<[old_text |-> o, new_text |-> n]>>] :
            o \in RaceTexts, n \in BatchNewTexts}

InitRace ==
    /\ disk \in RaceDocs
    /\ req = [c \in Calls |-> NoReq]
    /\ res = [c \in Calls |-> NoRes]
    /\ snap = [c \in Calls |-> <<>>]
    /\ io = <<>>

\* The transport dispatches a call; its path names the note.  A call starts
\* once while the file operations of the other are on record
Dispatch(c) ==
    /\ req[c] = NoReq
    /\ disk \in RaceDocs
    /\ \A k \in 1..Len(io) : io[k].call # c
    /\ \E r \in RaceRequests : req' = [req EXCEPT ![c] = InFlight(r, "dispatched")]
    /\ UNCHANGED <<disk, res, snap, io>>

\* content, err := os.ReadFile(fullPath)
ReadFile(c) ==
    /\ req[c] # NoReq
    /\ req[c].at = "dispatched"
    /\ req' = [req EXCEPT ![c].at = "read"]
    /\ snap' = [snap EXCEPT ![c] = disk]
    /\ io' = Append(io, CallOp("read", c))
    /\ UNCHANGED <<disk, res>>

\* The rest of the handler: the error result, or os.WriteFile and the success
WriteFile(c) ==
    /\ req[c] # NoReq
    /\ req[c].at = "read"
    /\ LET o == InMemory(req[c].call, snap[c], disk)
       IN /\ res' = [res EXCEPT ![c] = o.res]
          /\ disk' = IF o.res.ok THEN o.disk ELSE disk
          /\ io' = IF o.res.ok THEN Append(io, CallOp("write", c)) ELSE io
    /\ req' = [req EXCEPT ![c].at = "done"]
    /\ UNCHANGED snap

\* The result is handed to the caller; the record of the file operations is
\* cleared when no call is in flight any more
ReturnCall(c) ==
    /\ req[c] # NoReq
    /\ req[c].at = "done"
    /\ req' = [req EXCEPT ![c] = NoReq]
    /\ res' = [res EXCEPT ![c] = NoRes]
    /\ snap' = [snap EXCEPT ![c] = <<>>]
    /\ io' = IF \A d \in Calls \ {c} : req[d] = NoReq THEN <<>> ELSE io
    /\ UNCHANGED disk

NextRace ==
    \E c \in Calls :
        \/ Dispatch(c)
        \/ ReadFile(c)
        \/ WriteFile(c)
        \/ ReturnCall(c)

SpecRace == InitRace /\ [][NextRace]_vars

(***************************************************************************)
(* The note-model parser: wikilinks.                                       *)
(***************************************************************************)
\* wikilinkRegex, \[\[([^\]|]+)(?:\|[^\]]+)?\]\], tried at offset i of s: the
\* offset after the match and the text of group 1; end is -1 if the regexp
\* does not match there.  Both classes are repeated greedily and what stops
\* them cannot be matched by what follows, so a match takes the longest runs.
WikilinkMatchAt(s, i) ==
    LET from == i + 2
        j1 == CHOOSE j \in from..Len(s) :
                  /\ j = Len(s) \/ s[j + 1] \in {"]", PIPE}
                  /\ \A k \in (from + 1)..j : s[k] \notin {"]", PIPE}
        j2 == CHOOSE j \in (j1 + 1)..Len(s) :
                  /\ j = Len(s) \/ s[j + 1] = "]"
                  /\ \A k \in (j1 + 2)..j : s[k] # "]"
        close == IF j1 < Len(s) /\ s[j1 + 1] = PIPE /\ j2 > j1 + 1 /\ MatchAt(s, RR, j2)
                 THEN j2 ELSE j1
    IN IF MatchAt(s, LL, i) /\ j1 > from /\ MatchAt(s, RR, close)
       THEN [end |-> close + 2, target |-> Slice(s, from, j1)]
       ELSE [end |-> -1, target |-> <<>>]

\* wikilinkRegex.FindAllStringSubmatch(content, -1) from offset i on: group 1
\* of the successive leftmost matches
RECURSIVE FindAllWikilinks(_, _)
FindAllWikilinks(s, i) ==
    IF i >= Len(s) THEN <<>>
    ELSE IF WikilinkMatchAt(s, i).end > 0
    THEN <<WikilinkMatchAt(s, i).target>> \o FindAllWikilinks(s, WikilinkMatchAt(s, i).end)
    ELSE FindAllWikilinks(s, i + 1)

\* The loop of ExtractWikilinks over the matches, from the k-th on
RECURSIVE CollectLinks(_, _, _)
CollectLinks(matches, links, k) ==
    IF k > Len(matches) THEN links
    ELSE CollectLinks(matches,
                      Bind(TrimSpace(matches[k]), LAMBDA link :
                          Bind(links, LAMBDA seen :
                              IF \E n \in 1..Len(seen) : seen[n] = link THEN seen
                              ELSE Append(seen, link))),
                      k + 1)

\* ExtractWikilinks
ExtractWikilinks(content) ==
    Bind(FindAllWikilinks(content, 0), LAMBDA matches : CollectLinks(matches, <<>>, 1))

(***************************************************************************)
(* ExtractWikilinks as a state machine: a content, then the call on it.    *)
(***************************************************************************)
\* What contents with links are made of: "[[", "]]", "|", a blank and a letter
LinkTokens == { LL, RR, <<PIPE>>, <<SP>>, <<"a">> }

RECURSIVE Flatten(_)
Flatten(parts) == IF parts = <<>> THEN <<>> ELSE Head(parts) \o Flatten(Tail(parts))

LinkDocs == {Flatten(ts) : ts \in SeqsUpTo(LinkTokens, MaxLinkTokens)}

InitLinks == Start(LinkDocs)

ExtractWikilinksCall ==
    /\ Idle(LinkDocs)
    /\ Apply([op |-> "links"], Computed(ExtractWikilinks(disk), disk, disk))

NextLinks ==
    \/ Return
    \/ ExtractWikilinksCall

SpecLinks == InitLinks /\ [][NextLinks]_vars

(***************************************************************************)
(* The note-model parser: tasks.                                           *)
(***************************************************************************)
\* \s of the regexp package
RegexSpace == {SP, NL, "\t", "\r", "\f"}

\* The runes the task regexps name: the calendar and the three arrows
DueMark == "U+1F4C5"

PriorityMarks == {"U+23EB", "U+1F53C", "U+1F53D"}

Digits == {"0", "1", "2", "3", "4", "5", "6", "7", "8", "9"}

TagChars == {"a", "b", "x", "X", "_", DASH} \cup Digits

\* The offset at which the run of characters of class that starts at offset
\* i of s ends
RunEndAt(s, i, class) ==
    CHOOSE j \in i..Len(s) :
        /\ j = Len(s) \/ s[j + 1] \notin class
        /\ \A k \in (i + 1)..j : s[k] \in class

\* taskRegex, ^(\s*)-\s*\[([ xX])\]\s*(.+)$, on line: whether it matches, and
\* groups 2 and 3.  The first two \s* take their whole runs, as "-" and "["
\* are not blanks; the third gives back one blank when nothing follows its
\* run, for .+ to match; "." matches no newline and "$" only the end of line.
TaskMatch(line) ==
    LET dash == RunEndAt(line, 0, RegexSpace)
        open == RunEndAt(line, dash + 1, RegexSpace)
        run == RunEndAt(line, open + 3, RegexSpace)
        start == IF run = Len(line) THEN run - 1 ELSE run
        rest == Slice(line, start, Len(line))
    IN IF /\ dash < Len(line) /\ line[dash + 1] = DASH
          /\ open + 3 <= Len(line)
          /\ line[open + 1] = "["
          /\ line[open + 2] \in {SP, "x", "X"}
          /\ line[open + 3] = "]"
          /\ start >= open + 3
          /\ \A k \in 1..Len(rest) : rest[k] # NL
       THEN [matched |-> TRUE, status |-> line[open + 2], text |-> rest]
       ELSE [matched |-> FALSE, status |-> "", text |-> <<>>]

\* dueDateRegex on text: group 1 of the leftmost match, <<>> if none
DueDateOf(text) ==
    LET isDate(d) == /\ Len(d) = 10
                     /\ \A k \in {1, 2, 3, 4, 6, 7, 9, 10} : d[k] \in Digits
                     /\ d[5] = DASH /\ d[8] = DASH
        dateAt(i) == Slice(text, RunEndAt(text, i + 1, RegexSpace),
                           Min(RunEndAt(text, i + 1, RegexSpace) + 10, Len(text)))
        hits == {i \in 0..(Len(text) - 1) : text[i + 1] = DueMark /\ isDate(dateAt(i))}
    IN IF hits = {} THEN <<>> ELSE dateAt(CHOOSE i \in hits : \A j \in hits : i <= j)

\* priorityRegex on text and the switch that names the priority, "" if none
PriorityOf(text) ==
    LET hits == {i \in 1..Len(text) : text[i] \in PriorityMarks}
        first == text[CHOOSE i \in hits : \A j \in hits : i <= j]
    IN IF hits = {} THEN ""
       ELSE IF first = "U+23EB" THEN "high"
       ELSE IF first = "U+1F53C" THEN "medium"
       ELSE "low"

\* tagRegex.FindAllStringSubmatch(text, -1) from offset i on: group 1 of the
\* successive matches
RECURSIVE TagsFrom(_, _)
TagsFrom(text, i) ==
    IF i >= Len(text) THEN <<>>
    ELSE IF text[i + 1] = HASH /\ RunEndAt(text, i + 1, TagChars) > i + 1
    THEN <<Slice(text, i + 1, RunEndAt(text, i + 1, TagChars))>>
           \o TagsFrom(text, RunEndAt(text, i + 1, TagChars))
    ELSE TagsFrom(text, i + 1)

\* No task: the nil of ParseTask
NoTask == [task |-> FALSE]

\* The Task ParseTask builds from the line number, group 2 and the trimmed
\* group 3
TaskOf(lineNum, status, text) ==
    [task |-> TRUE, Line |-> lineNum, Completed |-> status \in {"x", "X"}, Text |-> text,
     DueDate |-> DueDateOf(text), Priority |-> PriorityOf(text), Tags |-> TagsFrom(text, 0)]

\* ParseTask
ParseTask(line, lineNum) ==
    Bind(TaskMatch(line), LAMBDA match :
        IF ~match.matched THEN NoTask
        ELSE Bind(TrimSpace(match.text), LAMBDA text : TaskOf(lineNum, match.status, text)))

(***************************************************************************)
(* ParseTask as a state machine: a line, then the call on it.              *)
(***************************************************************************)
\* What task lines are made of: the dash, an open and a ticked box, a blank,
\* a newline and a letter
TaskTokens ==
    { <<DASH>>, <<"[", SP, "]">>, <<"[", "x", "]">>, <<SP>>, <<NL>>, <<"a">> }

TaskLines == {Flatten(ts) : ts \in SeqsUpTo(TaskTokens, MaxTaskTokens)}

LineNums == {1, 2}

InitTask == Start(TaskLines)

ParseTaskCall ==
    /\ Idle(TaskLines)
    /\ \E n \in LineNums :
         Apply([op |-> "task", line |-> n], Computed(ParseTask(disk, n), disk, disk))

NextTask ==
    \/ Return
    \/ ParseTaskCall

SpecTask == InitTask /\ [][NextTask]_vars

(***************************************************************************)
(* The note-model parser: frontmatter.                                     *)
(***************************************************************************)
\* [a-zA-Z_] and [a-zA-Z0-9_-] of keyValueRegex
KeyStartChars == {"a", "b", "s", "t", "x", "S", "H", "h", "_"}

KeyChars == KeyStartChars \cup Digits \cup {DASH}

\* The cutset "' of strings.Trim
Quotes == {"\"", "'"}

\* keyValueRegex, ^([a-zA-Z_][a-zA-Z0-9_-]*)\s*:\s*(.*)$, on a line without
\* newline: whether it matches, and groups 1 and 2
KeyValueMatch(line) ==
    LET keyEnd == RunEndAt(line, 0, KeyChars)
        colon == RunEndAt(line, keyEnd, RegexSpace)
        from == RunEndAt(line, colon + 1, RegexSpace)
    IN IF /\ line # <<>>
          /\ line[1] \in KeyStartChars
          /\ colon < Len(line)
          /\ line[colon + 1] = COLON
       THEN [matched |-> TRUE, key |-> Slice(line, 0, keyEnd),
             value |-> Slice(line, from, Len(line))]
       ELSE [matched |-> FALSE, key |-> <<>>, value |-> <<>>]

\* fm[key] = value
Assign(fm, key, value) ==
    {e \in fm : e.key # key} \cup {[key |-> key, value |-> value]}

\* The loop of ParseFrontmatter over the lines, from the i-th on; fm is the
\* map so far, as the set of its entries
RECURSIVE ParseLines(_, _, _)
ParseLines(fm, lines, i) ==
    IF i > Len(lines) THEN fm
    ELSE ParseLines(
             Bind(fm, LAMBDA m :
                 Bind(KeyValueMatch(TrimSpace(lines[i])), LAMBDA match :
                     IF match.matched
                     THEN Assign(m, ToLower(match.key),
                                 TrimLeft(TrimRight(TrimSpace(match.value), Quotes), Quotes))
                     ELSE m)),
             lines, i + 1)

\* ParseFrontmatter
ParseFrontmatter(content) ==
    Bind(Index(Slice(content, 3, Len(content)), Marker), LAMBDA endIdx :
        IF ~HasPrefix(content, Marker) THEN {}
        ELSE IF endIdx < 0 THEN {}
        ELSE ParseLines({}, Split(Slice(content, 3, endIdx + 3), NL), 1))

(***************************************************************************)
(* ParseFrontmatter as a state machine: a content, then the call on it.    *)
(***************************************************************************)
\* "---", "S: x", "s: 'b'", "t: x---", a text line and a blank line
ParseFmLines ==
    { Marker, <<"S", COLON, SP, "x">>, <<"s", COLON, SP, "'", "b", "'">>,
      <<"t", COLON, SP, "x">> \o Marker, <<"x">>, <<>> }

ParseFmDocs == {Join(ls, NL) : ls \in SeqsUpTo(ParseFmLines, MaxParseLines)}

InitParse == Start(ParseFmDocs)

ParseFrontmatterCall ==
    /\ Idle(ParseFmDocs)
    /\ Apply([op |-> "parse"], Computed(ParseFrontmatter(disk), disk, disk))

NextParse ==
    \/ Return
    \/ ParseFrontmatterCall

SpecParse == InitParse /\ [][NextParse]_vars

(***************************************************************************)
(* Notions the claims are stated with.                                     *)
(***************************************************************************)
\* The byte offsets at which t matches s
Offsets(s, t) == {i \in 0..Len(s) : MatchAt(s, t, i)}

\* The number of occurrences of t in s: the largest number of matches of t
\* that can be taken from s without two of them sharing a byte
Occurrences(s, t) ==
    LET disjoint(S) == \A i \in S, j \in S : i < j => i + Len(t) <= j
        sizes == {Cardinality(S) : S \in {T \in SUBSET Offsets(s, t) : disjoint(T)}}
    IN CHOOSE n \in sizes : \A m \in sizes : m <= n

\* The offset of the first match of t in s (t is known to match)
FirstOffset(s, t) == CHOOSE i \in Offsets(s, t) : \A j \in Offsets(s, t) : i <= j

\* s with the bytes [i, i + n) replaced by new
Spliced(s, i, n, new) == Slice(s, 0, i) \o new \o Slice(s, i + n, Len(s))

\* The call read the note (it passed the checks made before the read)
ReadNote == io # <<>>

NoWrite == io = <<"read">> /\ disk = snap

IsBatch == req.op = "batch" /\ ReadNote

IsEdit == req.op = "edit" /\ ReadNote

\* Edit i of the batch fails the per-edit validation
FailsValidation(d, e) == e.old_text = <<>> \/ Occurrences(d, e.old_text) # 1

\* The byte range edit e matches in d
RangeOf(d, e) ==
    LET o == FirstOffset(d, e.old_text)
    IN o..(o + Len(e.old_text) - 1)

SomeRangesOverlap(d, edits) ==
    \E i \in 1..Len(edits), j \in 1..Len(edits) :
        /\ i < j
        /\ RangeOf(d, edits[i]) \cap RangeOf(d, edits[j]) # {}

\* C1: a batch with an edit whose old_text is empty, absent or not unique, or
\* with two overlapping matched ranges, is answered by an error, and the note
\* on disk is what it was before the call: nothing was written.
C1_BatchRejectionWritesNothing ==
    IsBatch =>
        LET invalid == \E i \in 1..Len(req.edits) : FailsValidation(snap, req.edits[i])
        IN /\ (invalid \/ SomeRangesOverlap(snap, req.edits)) => ~res.ok
           /\ ~res.ok => NoWrite

\* C1 witness: a batch rejected for overlapping ranges only, note untouched
C1_Witness ==
    /\ IsBatch
    /\ \A i \in 1..Len(req.edits) : ~FailsValidation(snap, req.edits[i])
    /\ SomeRangesOverlap(snap, req.edits)
    /\ \E i \in 1..Len(req.edits) : req.edits[i].new_text # req.edits[i].old_text
    /\ ~res.ok
    /\ disk = snap

\* Applying edits one at a time as single edits without replace_all, each
\* searched in the content the previous one left: [ok, doc]
RECURSIVE OneAtATime(_, _)
OneAtATime(d, edits) ==
    IF edits = <<>> THEN [ok |-> TRUE, doc |-> d]
    ELSE LET o == EditNoteBody(d, Head(edits).old_text, Head(edits).new_text, FALSE)
         IN IF o.res.ok THEN OneAtATime(o.disk, Tail(edits))
            ELSE [ok |-> FALSE, doc |-> d]

\* Each of the single edits finds its old_text at exactly one byte offset of
\* the content it is applied to
RECURSIVE EachMatchesOnce(_, _)
EachMatchesOnce(d, edits) ==
    IF edits = <<>> THEN TRUE
    ELSE /\ Cardinality(Offsets(d, Head(edits).old_text)) = 1
         /\ EachMatchesOnce(
              EditNoteBody(d, Head(edits).old_text, Head(edits).new_text, FALSE).disk,
              Tail(edits))

OrdersOf(n) == {f \in [1..n -> 1..n] : \A i \in 1..n : \E j \in 1..n : f[j] = i}

Permuted(edits, f) == [i \in 1..Len(edits) |-> edits[f[i]]]

\* C2 as claimed: the note written by an accepted batch is what the edits give
\* when applied one at a time as single edits, in every order.
C2_AnyOrderAsClaimed ==
    (IsBatch /\ res.ok) =>
        \A f \in OrdersOf(Len(req.edits)) :
            OneAtATime(snap, Permuted(req.edits, f)) = [ok |-> TRUE, doc |-> disk]

\* C2 amended: the note written by an accepted batch is what the edits give
\* when applied one at a time as single edits, in every order in which each
\* single edit finds its old_text at exactly one byte offset of the content
\* it is applied to.
C2_AnyOrderWhenEachMatchesOnce ==
    (IsBatch /\ res.ok) =>
        \A f \in OrdersOf(Len(req.edits)) :
            EachMatchesOnce(snap, Permuted(req.edits, f)) =>
                OneAtATime(snap, Permuted(req.edits, f)) = [ok |-> TRUE, doc |-> disk]

\* C2 witness: an accepted batch of two edits that change the length of the
\* note and can be applied one at a time in both orders
C2_Witness ==
    /\ IsBatch
    /\ res.ok
    /\ Len(req.edits) = 2
    /\ Len(disk) # Len(snap)
    /\ \A i \in 1..2 : req.edits[i].new_text # req.edits[i].old_text
    /\ \A f \in OrdersOf(2) : EachMatchesOnce(snap, Permuted(req.edits, f))

\* C3: a single edit without replace_all on a note in which old_text occurs
\* exactly once writes the note with that occurrence replaced by new_text and
\* all other bytes kept; the length changes by len(new_text) - len(old_text).
C3_SingleEditReplacesTheOccurrence ==
    (IsEdit /\ ~req.replace_all /\ Occurrences(snap, req.old_text) = 1) =>
        /\ res.ok
        /\ io = <<"read", "write">>
        /\ disk = Spliced(snap, FirstOffset(snap, req.old_text),
                          Len(req.old_text), req.new_text)
        /\ Len(disk) = Len(snap) + Len(req.new_text) - Len(req.old_text)

\* C3 witness: a unique old_text inside the note replaced by a longer text
C3_Witness ==
    /\ IsEdit
    /\ ~req.replace_all
    /\ Occurrences(snap, req.old_text) = 1
    /\ FirstOffset(snap, req.old_text) > 0
    /\ Len(req.new_text) > Len(req.old_text)
    /\ res.ok
    /\ Len(disk) > Len(snap)

\* C4: a single edit whose old_text does not occur is answered by the
\* not-found error; one whose old_text occurs more than once, without
\* replace_all, by the ambiguity error carrying the number of occurrences; in
\* both cases nothing is written and the note is unchanged.
C4_SingleEditRejections ==
    IsEdit =>
        LET n == Occurrences(snap, req.old_text)
        IN /\ n = 0 => (res = Failure("old_text not found", <<>>) /\ NoWrite)
           /\ (n > 1 /\ ~req.replace_all) =>
                 (res = Failure("ambiguous", <<n>>) /\ NoWrite)

\* C4 witness: an ambiguity error reporting two occurrences for a replacement
\* that would have changed the note
C4_Witness ==
    /\ IsEdit
    /\ ~req.replace_all
    /\ req.new_text # req.old_text
    /\ res = Failure("ambiguous", <<2>>)
    /\ disk = snap

\* The edits of the last call that have no replace-all semantics
UniqueEdits ==
    IF req.op = "batch" THEN {req.edits[i] : i \in 1..Len(req.edits)}
    ELSE IF req.op = "edit" /\ ~req.replace_all
    THEN {[old_text |-> req.old_text, new_text |-> req.new_text]}
    ELSE {}

\* C5: an edit without replace-all semantics is accepted only if its old_text
\* matches at exactly one byte offset of the note; two or more matching
\* offsets, overlapping ones included, are rejected.
C5_AcceptedOnlyWithOneMatchingOffset ==
    (ReadNote /\ res.ok) =>
        \A e \in UniqueEdits : Cardinality(Offsets(snap, e.old_text)) = 1

\* C6: when edits fail the per-edit validation, the error lists every failing
\* edit, each under its 1-based index in the caller's list, in that order.
C6_EveryFailingEditReported ==
    IsBatch =>
        LET failing == {i \in 1..Len(req.edits) : FailsValidation(snap, req.edits[i])}
            kindOf(i) ==
                IF req.edits[i].old_text = <<>> THEN "empty"
                ELSE IF Occurrences(snap, req.edits[i].old_text) = 0 THEN "not found"
                ELSE "not unique"
        IN failing # {} =>
             /\ ~res.ok
             /\ res.err = "validation failed"
             /\ Len(res.detail) = Cardinality(failing)
             /\ {res.detail[k].idx : k \in 1..Len(res.detail)} = failing
             /\ \A k \in 1..Len(res.detail) :
                    /\ res.detail[k].kind = kindOf(res.detail[k].idx)
                    /\ k > 1 => res.detail[k - 1].idx < res.detail[k].idx

\* C6 witness: both edits of a batch fail, for different reasons, and both
\* are reported
C6_Witness ==
    /\ IsBatch
    /\ Len(req.edits) = 2
    /\ res.err = "validation failed"
    /\ Len(res.detail) = 2
    /\ res.detail[1].idx = 1
    /\ res.detail[2].idx = 2
    /\ res.detail[1].kind = "not found"
    /\ res.detail[2].kind = "not unique"

(***************************************************************************)
(* Sections, as the claims describe them.                                  *)
(***************************************************************************)
IsSection == req.op = "section" /\ ReadNote

\* Line i of lines is a heading whose text equals title, letter case ignored
IsHeadingFor(lines, i, title) ==
    /\ HeadingMatch(lines[i]).matched
    /\ EqualFold(TrimSpace(HeadingMatch(lines[i]).text), title)

HasHeading(lines, title) == \E i \in 1..Len(lines) : IsHeadingFor(lines, i, title)

\* The first heading line with that title (1-based)
Anchor(lines, title) ==
    CHOOSE i \in 1..Len(lines) :
        /\ IsHeadingFor(lines, i, title)
        /\ \A j \in 1..(i - 1) : ~IsHeadingFor(lines, j, title)

\* The next heading after line a of a level <= that of line a, or the line
\* after the last one
Boundary(lines, a) ==
    LET closes(j) == /\ HeadingMatch(lines[j]).matched
                     /\ HeadingMatch(lines[j]).level <= HeadingMatch(lines[a]).level
        after == {j \in (a + 1)..Len(lines) : closes(j)}
    IN IF after = {} THEN Len(lines) + 1
       ELSE CHOOSE j \in after : \A k \in after : j <= k

\* The lines strictly between the heading and the boundary
SectionBody(lines, title) ==
    LET a == Anchor(lines, title)
    IN SubSeq(lines, a + 1, Boundary(lines, a) - 1)

\* A blank line, the content without trailing newlines, a blank line
Normalized(content) == <<<<>>>> \o Split(TrimRight(content, {NL}), NL) \o <<<<>>>>

\* "# H\n\nnew line\n"
ExampleResult ==
    <<HASH, SP, "H", NL, NL, "n", "e", "w", SP, "l", "i", "n", "e", NL>>

\* C7: section replace anchors at the first heading with the requested title
\* (letter case ignored) and replaces the lines strictly between it and the
\* next heading of the same or a higher rank (or the end) by the normalized
\* content; deeper headings inside go with the section, every other line stays;
\* the example note becomes "# H\n\nnew line\n".
C7_SectionReplaced ==
    (IsSection /\ HasHeading(Split(snap, NL), req.heading)) =>
        LET lines == Split(snap, NL)
            a == Anchor(lines, req.heading)
            b == Boundary(lines, a)
        IN /\ res.ok
           /\ io = <<"read", "write">>
           /\ disk = Join(SubSeq(lines, 1, a) \o Normalized(req.content)
                            \o SubSeq(lines, b, Len(lines)), NL)
           /\ (snap = ExampleDoc /\ req.heading = <<"H">> /\ req.content = ExampleContent)
                 => disk = ExampleResult

\* C7 witness: the example of the claim, the subsection replaced with its parent
C7_Witness ==
    /\ IsSection
    /\ snap = ExampleDoc
    /\ req.heading = <<"H">>
    /\ req.content = ExampleContent
    /\ disk = ExampleResult

\* C8 as claimed: after a successful replace, the body of the same heading
\* read back from the written note is the normalized content, whatever the
\* content.
C8_RoundTripAsClaimed ==
    (IsSection /\ res.ok) =>
        SectionBody(Split(disk, NL), req.heading) = Normalized(req.content)

\* No line of the content is a heading that would close the section anchored
\* at the heading of the note d
NoClosingHeading(d, title, content) ==
    LET lines == Split(d, NL)
        level == HeadingMatch(lines[Anchor(lines, title)]).level
        cl == Split(TrimRight(content, {NL}), NL)
    IN \A k \in 1..Len(cl) :
          ~(HeadingMatch(cl[k]).matched /\ HeadingMatch(cl[k]).level <= level)

\* C8 amended: after a successful replace, the body of the same heading read
\* back from the written note is the normalized content, for every content
\* none of whose lines is a heading of a level <= the level of the section's
\* heading.
C8_RoundTripWithoutClosingHeading ==
    (IsSection /\ res.ok /\ NoClosingHeading(snap, req.heading, req.content)) =>
        SectionBody(Split(disk, NL), req.heading) = Normalized(req.content)

\* C8 witness: an empty section at the end of the note receives content that
\* holds a deeper heading and ends with a newline, and reads back normalized
C8_Witness ==
    /\ IsSection
    /\ res.ok
    /\ NoClosingHeading(snap, req.heading, req.content)
    /\ Anchor(Split(snap, NL), req.heading) = Len(Split(snap, NL))
    /\ \E k \in 1..Len(Split(req.content, NL)) :
          HeadingMatch(Split(req.content, NL)[k]).matched
    /\ req.content # TrimRight(req.content, {NL})
    /\ SectionBody(Split(disk, NL), req.heading) = Normalized(req.content)

\* C9: when no heading line has the requested title (letter case ignored),
\* section replace answers heading-not-found, writes nothing and leaves the
\* note unchanged.
C9_HeadingNotFound ==
    (IsSection /\ ~HasHeading(Split(snap, NL), req.heading)) =>
        /\ res = Failure("Heading not found", <<>>)
        /\ NoWrite

\* C9 witness: a note with headings, none with the requested title
C9_Witness ==
    /\ IsSection
    /\ \E i \in 1..Len(Split(snap, NL)) : HeadingMatch(Split(snap, NL)[i]).matched
    /\ ~HasHeading(Split(snap, NL), req.heading)
    /\ res.err = "Heading not found"
    /\ disk = snap

(***************************************************************************)
(* Where a path leads, told without filepath: walk its elements from the   *)
(* vault root, ".." going to the parent (the root directory is its own    *)
(* parent), "." and empty elements staying.                                *)
(***************************************************************************)
RECURSIVE Walk(_, _)
Walk(at, elems) ==
    IF elems = <<>> THEN at
    ELSE LET e == Head(elems)
         IN IF e = <<>> \/ e = <<DOT>> THEN Walk(at, Tail(elems))
            ELSE IF e = DOTDOT
            THEN Walk(IF at = <<>> THEN at ELSE SubSeq(at, 1, Len(at) - 1), Tail(elems))
            ELSE Walk(Append(at, e), Tail(elems))

\* The directory elements of a vault root
RootElems(root) == Walk(<<>>, Split(root, SEP))

\* The joined path is the vault root or lies under it
InsideVault(root, p) ==
    LET r == RootElems(root)
        t == Walk(r, Split(p, SEP))
    IN Len(t) >= Len(r) /\ SubSeq(t, 1, Len(r)) = r

IsGuard == req.op = "guard"

HasParentSegment(p) == \E k \in 1..Len(Split(p, SEP)) : Split(p, SEP)[k] = DOTDOT

\* C10: the guard rejects every joined path that, with its "." and ".."
\* segments resolved, is neither the vault root nor under it.
C10_GuardFailsClosed ==
    (IsGuard /\ ~InsideVault(req.root, req.path)) =>
        res = Failure("path must be within vault", <<>>)

\* C10 witness: a path leaving the vault through ".." for a sibling whose
\* name begins with the vault's name is rejected
C10_Witness ==
    /\ IsGuard
    /\ req.root = <<SEP, "v">>
    /\ req.path = <<DOT, DOT, SEP, "v", "v">>
    /\ HasParentSegment(req.path)
    /\ ~InsideVault(req.root, req.path)
    /\ ~res.ok

\* C11: the guard accepts every joined path that, with its "." and ".."
\* segments resolved, is the vault root or lies under it, whatever the names
\* of the components below the root are.
C11_GuardAcceptsInside ==
    (IsGuard /\ InsideVault(req.root, req.path)) => res.ok

(***************************************************************************)
(* Frontmatter, as the claims describe it.                                 *)
(***************************************************************************)
IsSet == req.op = "set"

IsRemove == req.op = "remove"

IsAppend == req.op = "append"

\* The lines of the document the operation was given, and of its result
GivenLines == Split(snap, NL)

ResultLines == Split(disk, NL)

\* The lines strictly inside the block of lines that hold the key k
LinesHolding(lines, k) ==
    {i \in 2..(BlockEnd(lines) - 1) : KeyOfLine(lines[i]) = ToLower(k)}

FirstHolding(lines, k) ==
    CHOOSE i \in LinesHolding(lines, k) : \A j \in LinesHolding(lines, k) : i <= j

\* lines without its leading blank lines
RECURSIVE DropBlankLines(_)
DropBlankLines(lines) ==
    IF lines # <<>> /\ Head(lines) = <<>> THEN DropBlankLines(Tail(lines)) ELSE lines

\* C13: setting a key twice gives what setting it once gives, whether the
\* block held the key (under any letter case), held other keys only, or was
\* absent.
C13_SetKeyIdempotent ==
    IsSet => setFrontmatterKey(disk, req.key, req.value) = disk

\* C13 witness: the key was set over a line that holds it in another letter
\* case, and the document changed
C13_Witness ==
    /\ IsSet
    /\ req.key = <<"S">>
    /\ LinesHolding(GivenLines, req.key) # {}
    /\ disk # snap
    /\ setFrontmatterKey(disk, req.key, req.value) = disk

\* C14: removing the only key of a block removes the block with both
\* markers and returns the body without leading blank lines; when other
\* lines remain in the block only the key's line goes; when the key or the
\* block is absent the content comes back unchanged with removed = false.
C14_RemoveKey ==
    IsRemove =>
        LET lines == GivenLines
            end == BlockEnd(lines)
            held == LinesHolding(lines, req.key)
        IN /\ (end = 0 \/ held = {}) => (disk = snap /\ res.detail = <<FALSE>>)
           /\ (end = 3 /\ held = {2}) =>
                 /\ res.detail = <<TRUE>>
                 /\ disk = Join(DropBlankLines(SubSeq(lines, 4, Len(lines))), NL)
           /\ (end > 0 /\ held # {}
                  /\ \E i \in 2..(end - 1) : i \notin held /\ TrimSpace(lines[i]) # <<>>) =>
                 /\ res.detail = <<TRUE>>
                 /\ ResultLines = DeleteLine(lines, FirstHolding(lines, req.key))

\* C14 witness: the block "---", "s: x", "---" followed by a blank line and
\* the body "b" is reduced to "b"
C14_Witness ==
    /\ IsRemove
    /\ GivenLines = <<Marker, <<"s", COLON, SP, "x">>, Marker, <<>>, <<"b">> >>
    /\ res.detail = <<TRUE>>
    /\ disk = <<"b">>

\* The last line of the run of dash lines that follows line at
RunEnd(lines, at) ==
    CHOOSE j \in at..(BlockEnd(lines) - 1) :
        /\ \A i \in (at + 1)..j : IsDashLine(lines[i])
        /\ (j + 1 = BlockEnd(lines) \/ ~IsDashLine(lines[j + 1]))

\* C15: appending to a key held as an inline list rewrites the key as a
\* dash-list of the previous elements followed by the new value, and no
\* bracket form of the key remains; appending to a key held as a dash-list
\* adds exactly one dash line after the existing elements; an absent key is
\* created as a one-element dash-list, with the block if there is none.
C15_AppendToArray ==
    IsAppend =>
        LET lines == GivenLines
            end == BlockEnd(lines)
            held == LinesHolding(lines, req.key)
            k == ToLower(req.key)
            new == <<SP, SP, DASH, SP>> \o req.value
        IN /\ end = 0 =>
                 ResultLines = <<Marker, k \o <<COLON>>, new, Marker, <<>>>> \o lines
           /\ (end > 0 /\ held = {}) =>
                 ResultLines = InsertBefore(lines, end, <<k \o <<COLON>>, new>>)
           /\ (held # {} /\ ValueOfLine(lines[FirstHolding(lines, req.key)]) = <<>>) =>
                 LET at == FirstHolding(lines, req.key)
                 IN ResultLines = InsertBefore(lines, RunEnd(lines, at) + 1, <<new>>)
           /\ (held # {} /\ IsInlineList(ValueOfLine(lines[FirstHolding(lines, req.key)]))) =>
                 LET at == FirstHolding(lines, req.key)
                     elems == InlineElements(ValueOfLine(lines[at]))
                 IN /\ SubSeq(ResultLines, 1, at) = SubSeq(lines, 1, at - 1) \o <<k \o <<COLON>>>>
                    /\ \A i \in 1..Len(elems) :
                          ResultLines[at + i] = <<SP, SP, DASH, SP>> \o elems[i]
                    /\ ResultLines[at + Len(elems) + 1] = new
                    /\ SubSeq(ResultLines, at + Len(elems) + 2, Len(ResultLines))
                          = SubSeq(lines, at + 1, Len(lines))
                    /\ Cardinality(held) = 1 =>
                          \A i \in LinesHolding(ResultLines, req.key) :
                              ~IsInlineList(ValueOfLine(ResultLines[i]))

\* C15 witness: "---", "s: [a, b]", "---", a blank line and the body, with
\* "y" appended under the key written "S"
C15_Witness ==
    /\ IsAppend
    /\ req.key = <<"S">>
    /\ GivenLines = <<Marker, <<"s", COLON, SP, "[", "a", ",", SP, "b", "]">>, Marker,
                      <<>>, <<"b">> >>
    /\ ResultLines = <<Marker, <<"s", COLON>>, <<SP, SP, DASH, SP, "a">>,
                       <<SP, SP, DASH, SP, "b">>, <<SP, SP, DASH, SP, "y">>, Marker,
                       <<>>, <<"b">> >>

(***************************************************************************)
(* The vault handlers, as the claims describe them.                        *)
(***************************************************************************)
IsBulkMove == req.op = "bulk_move"

IsBulkSet == req.op = "bulk_set"

IsRename == req.op = "rename"

IsUpdateLinks == req.op = "update_links"

\* An absolute, cleaned path is the vault root or lies below it
Within(path) == path = VaultPath \/ HasPrefix(path, VaultPath \o <<SEP>>)

\* The paths the call performed the file operation op on
PathsOf(op) == {io[i].path : i \in {j \in 1..Len(io) : io[j].op = op}}

\* The documents of the vault in the store
Documents(store) == {p \in StorePaths : Within(p) /\ store[p].exists}

\* C12: a handler touches the file system at a location derived from a
\* caller's path only after the guard accepted the joined path, so every
\* file operation of a call is on a path within the vault.
C12_EveryAccessGuarded ==
    (IsBulkMove \/ IsBulkSet \/ IsRename) =>
        \A i \in 1..Len(io) : Within(io[i].path)

\* content with every "[[old]]" replaced by "[[new]]" and every "[[old|" by
\* "[[new|", read from offset i on, everything else copied
RECURSIVE Relinked(_, _, _, _)
Relinked(s, old, new, i) ==
    IF i >= Len(s) THEN <<>>
    ELSE IF MatchAt(s, LL \o old \o RR, i)
    THEN LL \o new \o RR \o Relinked(s, old, new, i + Len(old) + 4)
    ELSE IF MatchAt(s, LL \o old \o <<PIPE>>, i)
    THEN LL \o new \o <<PIPE>> \o Relinked(s, old, new, i + Len(old) + 3)
    ELSE <<s[i + 1]>> \o Relinked(s, old, new, i + 1)

\* C16: the link rewriter leaves every document of the vault with its links
\* to old renamed and everything else as it was, and writes exactly the
\* documents whose content this changed.
C16_LinksRewrittenChangedOnlyWritten ==
    IsUpdateLinks =>
        /\ \A p \in StorePaths :
              disk[p] = IF p \in Documents(snap)
                        THEN File(Relinked(snap[p].content, req.old, req.new, 0))
                        ELSE snap[p]
        /\ PathsOf("write") = {p \in StorePaths : disk[p] # snap[p]}
        /\ res.detail.done = SelectSeq(WalkFiles(snap, StoreOrder, 1),
                                       LAMBDA p : disk[p] # snap[p])

\* C16 witness: a -> b rewrites "[[a|x]][[b]]" to "[[b|x]][[b]]" in one
\* document and reads another without writing it
C16_Witness ==
    /\ IsUpdateLinks
    /\ req.old = <<"a">> /\ req.new = <<"b">>
    /\ snap[StoreOrder[3]] = File(LL \o <<"a", PIPE, "x">> \o RR \o LL \o <<"b">> \o RR)
    /\ disk[StoreOrder[3]] = File(LL \o <<"b", PIPE, "x">> \o RR \o LL \o <<"b">> \o RR)
    /\ snap[StoreOrder[4]] = File(<<"x">>)
    /\ PathsOf("write") = {StoreOrder[3]}
    /\ StoreOrder[4] \in PathsOf("read")

\* content holds a wikilink "[[name]]" or "[[name|alias]]"
LinksTo(content, name) ==
    \E i \in 0..Len(content) :
        \/ MatchAt(content, LL \o name \o RR, i)
        \/ /\ MatchAt(content, LL \o name \o <<PIPE>>, i)
           /\ \E j \in (i + Len(name) + 4)..Len(content) :
                 /\ MatchAt(content, RR, j)
                 /\ \A k \in (i + Len(name) + 4)..j : content[k] # "]"

\* C17: after a successful rename no document of the vault, the renamed
\* note included, holds a wikilink to the old note by its path without
\* extension or (when the rename changes it) by its base name.
C17_NoLinkToOldNameLeft ==
    (IsRename /\ res.ok) =>
        \A p \in Documents(disk) :
            /\ ~LinksTo(disk[p].content, TrimSuffix(req.old_path, MD))
            /\ Base(req.old_path) # Base(req.new_path) =>
                  ~LinksTo(disk[p].content, TrimSuffix(Base(req.old_path), MD))

\* Where BulkMoveHandler takes the i-th path from, and where to
MoveSource(i) == FilepathJoin(VaultPath, WithMD(req.paths[i]))

MoveTarget(i) ==
    FilepathJoin(FilepathJoin(VaultPath, req.destination), Base(WithMD(req.paths[i])))

\* The i-th path was moved by the call
Moved(i) == \E k \in 1..Len(res.detail.done) : res.detail.done[k] = WithMD(req.paths[i])

\* C18: a bulk move writes no document: every file is found with the
\* content it had, at its old path or at the path it was moved to, whether
\* update_links is set or not.
C18_BulkMoveKeepsContents ==
    (IsBulkMove /\ res.ok) =>
        /\ PathsOf("write") = {}
        /\ Cardinality({p \in StorePaths : disk[p].exists})
             = Cardinality({p \in StorePaths : snap[p].exists})
        /\ \A p \in StorePaths :
              disk[p].exists =>
                 \/ disk[p] = snap[p]
                 \/ \E i \in 1..Len(req.paths) :
                       Moved(i) /\ p = MoveTarget(i) /\ disk[p] = snap[MoveSource(i)]

\* C18 witness: a.md, linked to from d/a.md, is moved to e with update_links
\* set, and the link rewriter read the documents
C18_Witness ==
    /\ IsBulkMove
    /\ req.update_links
    /\ req.paths = << <<"a">> >>
    /\ req.destination = <<"e">>
    /\ snap[StoreOrder[5]] = File(LL \o <<"a">> \o RR)
    /\ snap[StoreOrder[3]].exists
    /\ disk[StoreOrder[7]] = snap[StoreOrder[3]]
    /\ ~disk[StoreOrder[3]].exists
    /\ StoreOrder[5] \in PathsOf("read")

C20_BinaryOutcome ==
    (IsBulkMove \/ IsBulkSet \/ IsRename) =>
        /\ res.ok => res.detail.failed = <<>>
        /\ ~res.ok => disk = snap

(***************************************************************************)
(* Two calls in flight.                                                    *)
(***************************************************************************)
\* The file operations read(A), read(B), write(A), write(B), in that order
LostUpdateOrder ==
    <<CallOp("read", "A"), CallOp("read", "B"), CallOp("write", "A"), CallOp("write", "B")>>

\* The two calls performed their file operations in that order and neither
\* result has been handed back yet
Interleaved == io = LostUpdateOrder /\ \A c \in Calls : req[c] # NoReq

\* The note the call c would have written had it been alone on content
AloneOn(c, content) == BodyOf(req[c].call, content).disk

\* C21: when the file operations of two calls on the same note interleave as
\* read(A), read(B), write(A), write(B), both calls return success and the
\* note is what call B alone makes of the content both calls read: the edit
\* of call A is not in it, and neither call is refused or started again.
C21_LostUpdate ==
    Interleaved =>
        /\ res["A"].ok /\ res["B"].ok
        /\ req["A"].at = "done" /\ req["B"].at = "done"
        /\ snap["A"] = snap["B"]
        /\ disk = AloneOn("B", snap["B"])

\* C21 witness: the interleaving happened with two edits that each change the
\* note, and the note is neither what A then B nor what B then A would have
\* left: the edit of A is lost
C21_Witness ==
    /\ Interleaved
    /\ res["A"].ok /\ res["B"].ok
    /\ AloneOn("A", snap["A"]) # snap["A"]
    /\ disk # AloneOn("B", AloneOn("A", snap["A"]))
    /\ disk # AloneOn("A", AloneOn("B", snap["A"]))
    /\ disk # AloneOn("A", snap["A"])

(***************************************************************************)
(* Wikilinks.                                                              *)
(***************************************************************************)
IsLinks == req.op = "links"

\* The trimmed targets of the links of content, one per match, in the order
\* of the matches
TargetsOf(content) ==
    LET matches == FindAllWikilinks(content, 0)
    IN [k \in 1..Len(matches) |-> TrimSpace(matches[k])]

\* The first match whose target is t
FirstSeen(targets, t) ==
    CHOOSE k \in 1..Len(targets) : targets[k] = t /\ \A n \in 1..(k - 1) : targets[n] # t

IsTask == req.op = "task"

OffsetOf(d, e) == FirstOffset(d, e.old_text)

\* d with the matched range of every edit replaced by its new_text at once:
\* at each offset of d the new_text of the edit that matches there, then the
\* byte at that offset unless it lies in a matched range
Simultaneously(d, edits) ==
    LET E == 1..Len(edits)
        inserted(p) == IF \E i \in E : OffsetOf(d, edits[i]) = p
                       THEN edits[CHOOSE i \in E : OffsetOf(d, edits[i]) = p].new_text
                       ELSE <<>>
        kept(p) == IF p < Len(d) /\ \A i \in E : p \notin RangeOf(d, edits[i])
                   THEN <<d[p + 1]>> ELSE <<>>
    IN Flatten([q \in 1..(Len(d) + 1) |-> inserted(q - 1) \o kept(q - 1)])

\* The located edits of the accepted batch in the order the splice loop
\* takes them
SpliceOrder == SortSlice(validateBatchEdits(snap, req.edits).located, OffsetDesc)

\* C24: an accepted batch writes the note it read with every matched range
\* replaced by its new_text at once, the offsets being those found in the note
\* as read; and after each splice of the loop, every edit not yet applied
\* still finds its old_text at its offset.
C24_SplicedSimultaneously ==
    (IsBatch /\ res.ok) =>
        /\ disk = Simultaneously(snap, req.edits)
        /\ \A k \in 0..Len(SpliceOrder) :
               LET result == ApplyLocated(snap, SubSeq(SpliceOrder, 1, k))
               IN \A j \in (k + 1)..Len(SpliceOrder) :
                      /\ SpliceOrder[j].offset = OffsetOf(snap, SpliceOrder[j])
                      /\ MatchAt(result, SpliceOrder[j].old_text, SpliceOrder[j].offset)

\* C24 witness: an accepted batch of two edits, the one at the higher offset
\* making the note shorter and the other making it longer
C24_Witness ==
    /\ IsBatch
    /\ res.ok
    /\ Len(req.edits) = 2
    /\ \E i \in 1..2, j \in 1..2 :
           /\ OffsetOf(snap, req.edits[i]) < OffsetOf(snap, req.edits[j])
           /\ Len(req.edits[i].new_text) > Len(req.edits[i].old_text)
           /\ Len(req.edits[j].new_text) < Len(req.edits[j].old_text)
    /\ disk = Simultaneously(snap, req.edits)
    /\ disk # snap

C26_ReadOnceThenWriteOnce ==
    [][req' # NoReq =>
           IF res'.ok
           THEN io' = <<"read", "write">> /\ snap' = disk
           ELSE io' \in {<<>>, <<"read">>} /\ disk' = disk]_vars

\* C26 witness: a section was replaced, after one read, by one write that
\* changed the note
C26_Witness ==
    /\ IsSection
    /\ res.ok
    /\ io = <<"read", "write">>
    /\ disk # snap

(***************************************************************************)
(* Parsing frontmatter.                                                    *)
(***************************************************************************)
IsParse == req.op = "parse"

\* The line at which the block of lines closes: the first line after the
\* first that is the marker; 0 if there is none
ClosingLine(lines) ==
    LET marks == {i \in 2..Len(lines) : lines[i] = Marker}
    IN IF marks = {} THEN 0 ELSE CHOOSE i \in marks : \A j \in marks : i <= j

\* The entry a `key: value` line stands for
EntryOf(line) ==
    LET match == KeyValueMatch(TrimSpace(line))
    IN [key |-> ToLower(match.key),
        value |-> TrimLeft(TrimRight(TrimSpace(match.value), Quotes), Quotes)]

IsKeyValueLine(line) == KeyValueMatch(TrimSpace(line)).matched

\* C27: ParseFrontmatter returns the empty mapping for a content that does
\* not start with the marker or holds no further marker; for a content whose
\* first line is the marker and that has a closing marker line, it returns
\* the entry of every `key: value` line between the two, the last line of a
\* key giving its value, and no other entry.
C27_ParsesTheBlock ==
    IsParse =>
        LET lines == Split(snap, NL)
            close == ClosingLine(lines)
            inside == {i \in 2..(close - 1) : IsKeyValueLine(lines[i])}
            last == {i \in inside :
                       \A j \in inside : j > i => EntryOf(lines[j]).key # EntryOf(lines[i]).key}
        IN /\ (~HasPrefix(snap, Marker) \/ Index(Slice(snap, 3, Len(snap)), Marker) < 0)
                 => res.detail = {}
           /\ (lines[1] = Marker /\ close > 0)
                 => res.detail = {EntryOf(lines[i]) : i \in last}

(***************************************************************************)
(* The excerpt of a batch edit.                                            *)
(***************************************************************************)
\* The edit of the batch with the smallest offset in the note as read
FirstInFile ==
    req.edits[CHOOSE i \in 1..Len(req.edits) :
                 \A j \in 1..Len(req.edits) :
                     OffsetOf(snap, req.edits[i]) <= OffsetOf(snap, req.edits[j])]

\* The number of the line of content that holds the byte offset
LineOfOffset(content, offset) == Count(Slice(content, 0, offset), <<NL>>) + 1

\* C28: when a batch edit is called with context lines, the line the excerpt
\* marks as changed is the line of the written note at which the new_text of
\* the edit with the smallest offset was spliced in, also when that new_text
\* occurs earlier in the written note or is empty.
C28_ExcerptAtFirstEdit ==
    (IsBatch /\ res.ok /\ req.context_lines > 0) =>
        LET excerpt == res.detail[2]
        IN \E k \in 1..Len(excerpt) :
               /\ excerpt[k].marker = "CHANGED"
               /\ excerpt[k].n = LineOfOffset(disk, OffsetOf(snap, FirstInFile))

\* C29: a rename that returns an error result has modified no document and
\* has left the note at old_path.
C29_NothingHalfDoneOnFailure ==
    (IsRename /\ ~res.ok) =>
        /\ disk = snap
        /\ PathsOf("write") = {}
        /\ Exists(snap, FilepathJoin(VaultPath, req.old_path)) =>
               Exists(disk, FilepathJoin(VaultPath, req.old_path))

\* C30: when the overlap check rejects a batch, the two numbers of the error
\* message are positions in the caller's list of edits, of two edits whose
\* matched ranges overlap.
C30_OverlapNamesCallerPositions ==
    (IsBatch /\ res.err = "overlap") =>
        /\ res.detail[1] \in 1..Len(req.edits)
        /\ res.detail[2] \in 1..Len(req.edits)
        /\ RangeOf(snap, req.edits[res.detail[1]])
              \cap RangeOf(snap, req.edits[res.detail[2]]) # {}

====
